---- MODULE Spec2Model ----
(***************************************************************************)
(* Composable runtime: definitions -> component graph (interceptor         *)
(* redirection, cycle detection) -> registries (topological walk, enables  *)
(* scopes, import satisfaction).                                           *)
(***************************************************************************)
EXTENDS Integers, Sequences, FiniteSets, TLC

VARIABLES
    component_definitions,        \* Vec<ComponentDefinition>, in definition order
    runtime_feature_definitions,  \* Vec<RuntimeFeatureDefinition>
    wasm,                         \* what each component's uri resolves to (bytes and their parse)
    pc,                           \* position of the pipeline
    graph,                        \* ComponentGraph.graph: the edges of the built graph
    redirects,                    \* one record per edge that redirection rerouted
    error,                        \* the Err a stage returned, or NoError
    build_order,                  \* get_build_order(): the component nodes in toposort order
    cursor,                       \* index into build_order of the next node to process
    built_components,             \* build_registries: name -> ComponentSpec
    exposed_components,           \* build_registries: the public component map
    enabling_components,          \* build_registries: name -> EnablingComponent
    runtime_features,             \* RuntimeFeatureRegistry.runtime_features: name -> RuntimeFeature
    results,                      \* name -> what process_component returned for that component
    definition_files,             \* what the definition files given to the loader hold
    factories,                    \* RuntimeBuilder.factories: the registered host extension names
    invocations,                  \* the calls made on the Runtime, each with its own instance
    asked,                        \* is_import_satisfied: the import asked about
    provided,                     \* is_import_satisfied: the interfaces provided
    satisfied,                    \* is_import_satisfied: the answer, once computed
    json_value,                   \* json_to_val: the serde_json::Value given
    val_type,                     \* json_to_val: the wasmtime Type asked for
    inbound,                      \* json_to_val: its Result, once computed
    val,                          \* the Val in hand: converted from JSON or returned by a guest
    outbound,                     \* val_to_json: the serde_json::Value it made, once computed
    cli_args,                     \* Commands::Invoke: the argument texts typed
    cli_params,                   \* Commands::Invoke: function.params() of the target
    final_args                    \* Commands::Invoke: what is handed to Runtime::invoke

vars == <<component_definitions, runtime_feature_definitions, wasm, pc, graph, redirects,
          error, build_order, cursor, built_components, exposed_components,
          enabling_components, runtime_features, results, definition_files, factories,
          invocations, asked, provided, satisfied, json_value, val_type, inbound, val,
          outbound, cli_args, cli_params, final_args>>

inputVars == <<definition_files, factories>>
runtimeVars == <<invocations>>
importVars == <<asked, provided, satisfied>>
marshalVars == <<json_value, val_type, inbound, val, outbound>>
cliVars == <<cli_args, cli_params, final_args>>

-----------------------------------------------------------------------------
(* Bounds of the model *)

\* at most MaxArgs arguments are typed after the target, for at most MaxArgs parameters
MaxArgs == 2

\* precedence values are drawn from 0..MaxPrecedence
MaxPrecedence == 1

\* at most this many components of one manifest declare `intercepts`
MaxInterceptors == 2

ComponentNames == <<"alpha", "beta", "gamma">>
FeatureNames == <<"infra">>

None == "<none>"
NoError == [kind |-> "ok"]
NoSpecs == [n \in {} |-> None]

Range(s) == {s[i] : i \in DOMAIN s}

-----------------------------------------------------------------------------
(* types.rs *)

EnableScopes == {"none", "package", "namespace", "unexposed", "exposed", "any"}

default_enables == "none"

ComponentDefinition(name, enables, expects, intercepts, precedence, exposed) ==
    [name |-> name, enables |-> enables, expects |-> expects, intercepts |-> intercepts,
     precedence |-> precedence, exposed |-> exposed]

\* a config table, by its keys
EmptyConfig == {}

RuntimeFeatureDefinition(name, uri, enables) ==
    [name |-> name, uri |-> uri, enables |-> enables, config |-> EmptyConfig]

WithConfig(definition, config) == [definition EXCEPT !.config = config]

-----------------------------------------------------------------------------
(* graph.rs *)

Dependency == [kind |-> "Dependency", precedence |-> 0]
Interceptor(p) == [kind |-> "Interceptor", precedence |-> p]

Edge(s, t, w) == [source |-> s, target |-> t, weight |-> w]

\* is_interceptor_enabled with the "none" arm accepting
is_interceptor_enabled_none_accepts(interceptor, consumer) ==
    CASE interceptor.enables = "none" -> TRUE
      [] interceptor.enables = "any" -> TRUE
      [] interceptor.enables = "exposed" -> consumer.exposed
      [] interceptor.enables = "unexposed" -> ~consumer.exposed
      [] interceptor.enables = "package" -> TRUE
      [] interceptor.enables = "namespace" -> TRUE
      [] OTHER -> FALSE

is_interceptor_enabled(interceptor, consumer) ==
    CASE interceptor.enables = "none" -> FALSE
      [] interceptor.enables = "any" -> TRUE
      [] interceptor.enables = "exposed" -> consumer.exposed
      [] interceptor.enables = "unexposed" -> ~consumer.exposed
      [] interceptor.enables = "package" -> TRUE
      [] interceptor.enables = "namespace" -> TRUE
      [] OTHER -> FALSE

\* node_map: the names that have a node
NodeNames(cdefs, rdefs) ==
    {rdefs[i].name : i \in DOMAIN rdefs} \cup {cdefs[i].name : i \in DOMAIN cdefs}

DefOf(cdefs, name) == cdefs[CHOOSE i \in DOMAIN cdefs : cdefs[i].name = name]

IsComponent(cdefs, name) == \E i \in DOMAIN cdefs : cdefs[i].name = name

\* DiGraph::find_edge
find_edge(es, s, t) == \E i \in DOMAIN es : es[i].source = s /\ es[i].target = t

\* DiGraph::update_edge: set the weight of the edge s -> t, adding the edge if absent
update_edge(es, s, t, w) ==
    IF find_edge(es, s, t)
    THEN [i \in DOMAIN es |->
            IF es[i].source = s /\ es[i].target = t THEN Edge(s, t, w) ELSE es[i]]
    ELSE Append(es, Edge(s, t, w))

\* `intercepts` implies `expects`
RECURSIVE PushMissing(_, _)
PushMissing(expects, intercepts) ==
    IF intercepts = <<>> THEN expects
    ELSE PushMissing(IF Head(intercepts) \in Range(expects) THEN expects
                     ELSE Append(expects, Head(intercepts)),
                     Tail(intercepts))

EffectiveExpects(def) == PushMissing(def.expects, def.intercepts)

RECURSIVE AddExpected(_, _, _, _)
AddExpected(es, nodes, consumer, expects) ==
    IF expects = <<>> THEN es
    ELSE AddExpected(IF Head(expects) \in nodes
                     THEN update_edge(es, Head(expects), consumer, Dependency)
                     ELSE es,
                     nodes, consumer, Tail(expects))

RECURSIVE DeclaredEdgesFrom(_, _, _, _)
DeclaredEdgesFrom(es, nodes, cdefs, k) ==
    IF k > Len(cdefs) THEN es
    ELSE DeclaredEdgesFrom(AddExpected(es, nodes, cdefs[k].name, EffectiveExpects(cdefs[k])),
                           nodes, cdefs, k + 1)

\* the graph before redirection: one Dependency edge per defined expectation
DeclaredEdges(cdefs, rdefs) == DeclaredEdgesFrom(<<>>, NodeNames(cdefs, rdefs), cdefs, 1)

\* the components defined to intercept the provider that enable this consumer
EnabledInterceptors(cdefs, provider, consumer) ==
    SelectSeq(cdefs, LAMBDA def : provider \in Range(def.intercepts)
                                  /\ is_interceptor_enabled(def, DefOf(cdefs, consumer)))

\* a sort that puts equal keys in reverse order
RECURSIVE InsertByKey_unstable(_, _)
InsertByKey_unstable(sorted, def) ==
    IF sorted = <<>> THEN <<def>>
    ELSE IF Head(sorted).precedence < def.precedence
         THEN <<Head(sorted)>> \o InsertByKey_unstable(Tail(sorted), def)
         ELSE <<def>> \o sorted

\* a stable sort by descending key
RECURSIVE InsertByKey_descending(_, _)
InsertByKey_descending(sorted, def) ==
    IF sorted = <<>> THEN <<def>>
    ELSE IF Head(sorted).precedence >= def.precedence
         THEN <<Head(sorted)>> \o InsertByKey_descending(Tail(sorted), def)
         ELSE <<def>> \o sorted

\* Vec::sort_by_key(|a| a.precedence): a stable sort
RECURSIVE InsertByKey(_, _)
InsertByKey(sorted, def) ==
    IF sorted = <<>> THEN <<def>>
    ELSE IF Head(sorted).precedence <= def.precedence
         THEN <<Head(sorted)>> \o InsertByKey(Tail(sorted), def)
         ELSE <<def>> \o sorted

RECURSIVE SortedFrom(_, _)
SortedFrom(sorted, rest) ==
    IF rest = <<>> THEN sorted ELSE SortedFrom(InsertByKey(sorted, Head(rest)), Tail(rest))

sort_by_key(defs) == SortedFrom(<<>>, defs)

\* the interceptor chain of one redirected edge, or <<>> when the edge is left alone
ChainFor(cdefs, provider, consumer) ==
    LET interceptors == EnabledInterceptors(cdefs, provider, consumer)
    IN IF interceptors = <<>> THEN <<>>
       ELSE IF \E i \in DOMAIN interceptors : interceptors[i].name = consumer THEN <<>>
       ELSE sort_by_key(interceptors)

\* edges_to_remove pushed while visiting the edge provider -> consumer
RemovalsFor(es, chain, provider, consumer) ==
    IF chain = <<>> THEN {}
    ELSE {<<provider, chain[k].name>> : k \in {j \in 2..Len(chain) :
                                                find_edge(es, provider, chain[j].name)}}
         \cup {<<provider, consumer>>}

\* only the two ends of the chain are pushed: the interceptors are not linked to each other
AdditionsFor_unlinked(chain, provider, consumer) ==
    IF chain = <<>> THEN <<>>
    ELSE <<Edge(provider, chain[1].name, Interceptor(chain[1].precedence)),
           Edge(chain[Len(chain)].name, consumer, Dependency)>>

\* edges_to_add pushed while visiting the edge provider -> consumer
AdditionsFor(chain, provider, consumer) ==
    IF chain = <<>> THEN <<>>
    ELSE [k \in 1..Len(chain) |->
            Edge(IF k = 1 THEN provider ELSE chain[k - 1].name, chain[k].name,
                 Interceptor(chain[k].precedence))]
         \o <<Edge(chain[Len(chain)].name, consumer, Dependency)>>

RECURSIVE AllAdditions(_, _, _)
AllAdditions(cdefs, es, k) ==
    IF k > Len(es) THEN <<>>
    ELSE AdditionsFor(ChainFor(cdefs, es[k].source, es[k].target), es[k].source, es[k].target)
         \o AllAdditions(cdefs, es, k + 1)

AllRemovals(cdefs, es) ==
    UNION {RemovalsFor(es, ChainFor(cdefs, es[k].source, es[k].target),
                       es[k].source, es[k].target) : k \in DOMAIN es}

\* DiGraph::retain_edges
retain_edges(es, removed) ==
    SelectSeq(es, LAMBDA e : <<e.source, e.target>> \notin removed)

RECURSIVE ApplyAdditions(_, _)
ApplyAdditions(es, adds) ==
    IF adds = <<>> THEN es
    ELSE ApplyAdditions(update_edge(es, Head(adds).source, Head(adds).target, Head(adds).weight),
                        Tail(adds))

\* the edges after the batch of removals and additions
RedirectedEdges(cdefs, rdefs) ==
    LET es == DeclaredEdges(cdefs, rdefs)
    IN Range(ApplyAdditions(retain_edges(es, AllRemovals(cdefs, es)), AllAdditions(cdefs, es, 1)))

\* one record per declared edge that redirection rerouted
Redirections(cdefs, rdefs) ==
    LET es == DeclaredEdges(cdefs, rdefs)
    IN {[provider |-> es[k].source, consumer |-> es[k].target,
         chain |-> [j \in DOMAIN ChainFor(cdefs, es[k].source, es[k].target) |->
                       ChainFor(cdefs, es[k].source, es[k].target)[j].name]]
        : k \in {i \in DOMAIN es : ChainFor(cdefs, es[i].source, es[i].target) # <<>>}}

\* the pairs of nodes joined by a path of at least one edge
RECURSIVE PathsWithin(_, _)
PathsWithin(rel, n) ==
    IF n = 0 THEN rel
    ELSE PathsWithin(rel \cup {<<pq[1][1], pq[2][2]>> :
                                  pq \in {x \in rel \X rel : x[1][2] = x[2][1]}},
                     n - 1)

Paths(nodes, es) ==
    PathsWithin({<<e.source, e.target>> : e \in es}, Cardinality(nodes))

\* a toposort that overlooks self loops
toposort_ignoring_self_loops(nodes, es) ==
    {n \in nodes : <<n, n>> \in Paths(nodes, {e \in es : e.source # e.target})}

\* petgraph::algo::toposort: the nodes it may name in Err(Cycle), {} when it returns Ok
toposort(nodes, es) == {n \in nodes : <<n, n>> \in Paths(nodes, es)}

\* ComponentGraph::build
BuildGraph ==
    /\ pc = "definitions"
    /\ LET nodes == NodeNames(component_definitions, runtime_feature_definitions)
           es == RedirectedEdges(component_definitions, runtime_feature_definitions)
           cycle == toposort(nodes, es)
       IN IF cycle # {}
          THEN /\ \E n \in cycle : error' = [kind |-> "cycle", node |-> n]
               /\ pc' = "rejected"
               /\ UNCHANGED <<graph, redirects>>
          ELSE /\ graph' = es
               /\ redirects' = Redirections(component_definitions, runtime_feature_definitions)
               /\ pc' = "graph"
               /\ UNCHANGED error
    /\ UNCHANGED <<component_definitions, runtime_feature_definitions, wasm, build_order,
                   cursor, built_components, exposed_components, enabling_components,
                   runtime_features, results>>
    /\ UNCHANGED <<inputVars, marshalVars, cliVars, runtimeVars, importVars>>

-----------------------------------------------------------------------------
(* registry.rs *)

\* Option<T>: None is the empty set, Some(x) the singleton
Some(x) == {x}
NoOption == {}

\* an interface id "name@major.minor.patch": the part before the last '@' and
\* the dot-separated numbers after it (<<>> when the id carries no version)
\* the value inside Some(x)
Unwrap(option) == CHOOSE x \in option : TRUE

\* A string is the sequence of its characters; a run of characters none of which is
\* a digit, '@', '.', '+' or '-' may stand as one element ("wasi:io/poll").
Digits == <<"0", "1", "2", "3", "4", "5", "6", "7", "8", "9">>

\* char::to_digit(10)
to_digit(c) == IF c \in Range(Digits) THEN Some((CHOOSE i \in DOMAIN Digits : Digits[i] = c) - 1) ELSE NoOption

\* the numeral of a one-digit number
Numeral(n) == <<Digits[n + 1]>>

\* the version text major.minor.patch of three one-digit numbers
Version(major, minor, patch) == Numeral(major) \o <<".">> \o Numeral(minor) \o <<".">> \o Numeral(patch)

\* an interface id: name@version, or the bare name when the version text is empty
Interface(name, version) == IF version = <<>> THEN <<name>> ELSE <<name, "@">> \o version

Wasi(name) == Interface(name, Version(0, 2, 6))

\* str::rsplit_once: the text before and after the last occurrence of the delimiter
rsplit_once(s, delimiter) ==
    LET at == {i \in DOMAIN s : s[i] = delimiter}
    IN IF at = {}
       THEN NoOption
       ELSE LET last == CHOOSE i \in at : \A j \in at : j <= i
            IN Some(<<SubSeq(s, 1, last - 1), SubSeq(s, last + 1, Len(s))>>)

\* str::split(..).collect(): the pieces between the occurrences of the delimiter
RECURSIVE split(_, _)
split(s, delimiter) ==
    LET at == {i \in DOMAIN s : s[i] = delimiter}
    IN IF at = {}
       THEN <<s>>
       ELSE LET first == CHOOSE i \in at : \A j \in at : i <= j
            IN <<SubSeq(s, 1, first - 1)>> \o split(SubSeq(s, first + 1, Len(s)), delimiter)

\* A u32 is kept as its decimal numeral without leading zeros, which is exact over
\* the whole 32-bit range.
RECURSIVE StripZeros(_)
StripZeros(digits) ==
    IF Len(digits) > 1 /\ Head(digits) = "0" THEN StripZeros(Tail(digits)) ELSE digits

\* u32::MAX
u32_MAX == <<"4", "2", "9", "4", "9", "6", "7", "2", "9", "5">>

\* a <= b on numerals without leading zeros
u32_le(a, b) ==
    \/ Len(a) < Len(b)
    \/ /\ Len(a) = Len(b)
       /\ \/ a = b
          \/ \E i \in DOMAIN a :
                /\ SubSeq(a, 1, i - 1) = SubSeq(b, 1, i - 1)
                /\ Unwrap(to_digit(a[i])) < Unwrap(to_digit(b[i]))

\* <u32 as FromStr>::from_str: an optional '+', then one or more digits, and no
\* overflow; Some(value) or None
parse_u32(src) ==
    LET digits == IF Len(src) > 1 /\ Head(src) = "+" THEN Tail(src) ELSE src
    IN IF /\ digits # <<>>
          /\ \A i \in DOMAIN digits : to_digit(digits[i]) # NoOption
          /\ u32_le(StripZeros(digits), u32_MAX)
       THEN Some(StripZeros(digits))
       ELSE NoOption

get_interfaces_for_runtime_feature(uri) ==
    CASE uri = "wasmtime:http" ->
            {Wasi("wasi:http/outgoing-handler"), Wasi("wasi:http/types")}
      [] uri = "wasmtime:io" ->
            {Wasi("wasi:io/error"), Wasi("wasi:io/poll"), Wasi("wasi:io/streams")}
      [] uri = "wasmtime:random" ->
            {Wasi("wasi:random/random"), Wasi("wasi:random/insecure-seed")}
      [] uri = "wasmtime:inherit-network" ->
            {Wasi("wasi:sockets/tcp"), Wasi("wasi:sockets/udp"), Wasi("wasi:sockets/network"),
             Wasi("wasi:sockets/instance-network")}
      [] uri = "wasmtime:allow-ip-name-lookup" -> {Wasi("wasi:sockets/ip-name-lookup")}
      [] uri = "wasmtime:inherit-stdio" ->
            {Wasi("wasi:cli/stdin"), Wasi("wasi:cli/stdout"), Wasi("wasi:cli/stderr")}
      [] uri = "wasmtime:wasip2" ->
            {Wasi("wasi:cli/environment"), Wasi("wasi:cli/exit"), Wasi("wasi:cli/stderr"),
             Wasi("wasi:cli/stdin"), Wasi("wasi:cli/stdout"), Wasi("wasi:cli/terminal-input"),
             Wasi("wasi:cli/terminal-output"), Wasi("wasi:cli/terminal-stdin"),
             Wasi("wasi:cli/terminal-stdout"), Wasi("wasi:cli/terminal-stderr"),
             Wasi("wasi:clocks/monotonic-clock"), Wasi("wasi:clocks/wall-clock"),
             Wasi("wasi:filesystem/preopens"), Wasi("wasi:filesystem/types"),
             Wasi("wasi:io/error"), Wasi("wasi:io/poll"), Wasi("wasi:io/streams"),
             Wasi("wasi:random/random"), Wasi("wasi:random/insecure-seed"),
             Wasi("wasi:sockets/tcp"), Wasi("wasi:sockets/udp"), Wasi("wasi:sockets/network"),
             Wasi("wasi:sockets/instance-network"), Wasi("wasi:sockets/ip-name-lookup"),
             Wasi("wasi:sockets/tcp-create-socket"), Wasi("wasi:sockets/udp-create-socket")}
      [] OTHER -> {}

RuntimeFeature(uri, enables, interfaces, extension) ==
    [uri |-> uri, enables |-> enables, interfaces |-> interfaces, extension |-> extension]

\* uri.strip_prefix("host:"), over the host uris of the manifests
strip_prefix_host(uri) ==
    CASE uri = "host:greeter" -> Some("greeter")
      [] uri = "host:counter" -> Some("counter")
      [] uri = "host:first" -> Some("first")
      [] uri = "host:second" -> Some("second")
      [] uri = "host:missing" -> Some("missing")
      [] OTHER -> NoOption

\* a HostExtension instance: what interfaces() returns and what create_state_boxed()
\* returns (None, or the type key with the fresh state)
HostExtension(interfaces, state) == [interfaces |-> interfaces, state |-> state]

ExtensionState(type_id, value) == [type_id |-> type_id, value |-> value]

\* the extension types an embedding registers with with_host_extension::<T>(name);
\* the TOML blocks carry no config, so factory.create yields T::default()
HostExtensionTypes ==
    [name \in {"greeter", "counter", "first", "second"} |->
        CASE name = "greeter" ->
                HostExtension({Interface("modulewise:test-host/greeter", <<>>)}, NoOption)
          [] name = "counter" ->
                HostExtension({Interface("modulewise:test-host/counter", <<>>)},
                              Some(ExtensionState("CounterState", 0)))
          [] name = "first" ->
                HostExtension({Interface("modulewise:test-host/first", <<>>)},
                              Some(ExtensionState("SharedState", 1)))
          [] name = "second" ->
                HostExtension({Interface("modulewise:test-host/second", <<>>)},
                              Some(ExtensionState("SharedState", 2)))]

ExtensionMissing(feature_name, uri) ==
    [kind |-> "extension_missing", extension |-> feature_name, uri |-> uri]

CreateFailed(feature_name, name) ==
    [kind |-> "create_failed", extension |-> feature_name, name |-> name]

\* HostExtensionFactory::create for the unit-struct types above: deserialization of
\* an object fails, and Default is the fallback for the empty object only
factory_create(feature_name, config) ==
    IF config = EmptyConfig THEN Some(HostExtensionTypes[feature_name]) ELSE NoOption

\* no host feature is ever reported as missing
MissingFactories_tolerated(rdefs, registered) == <<>>

\* the host features, in definition order, whose factory is not registered
MissingFactories(rdefs, registered) ==
    SelectSeq(rdefs, LAMBDA def : /\ strip_prefix_host(def.uri) # NoOption
                                  /\ strip_prefix_host(def.uri) \cap registered = {})

\* the host features, in definition order, whose factory fails to create the extension
FailedCreations(rdefs) ==
    SelectSeq(rdefs, LAMBDA def : /\ strip_prefix_host(def.uri) # NoOption
                                  /\ factory_create(Unwrap(strip_prefix_host(def.uri)),
                                                    def.config) = NoOption)

\* the index of def in rdefs
Position(rdefs, def) == CHOOSE i \in DOMAIN rdefs : rdefs[i] = def

\* Err of the first host feature without factory or whose creation fails, else
\* Ok(registry)
create_runtime_feature_registry(rdefs, registered) ==
    LET missing == MissingFactories(rdefs, registered)
        failed == SelectSeq(FailedCreations(rdefs),
                            LAMBDA def : strip_prefix_host(def.uri) \cap registered # {})
    IN IF missing # <<>> /\ (failed = <<>> \/
                                Position(rdefs, Head(missing)) < Position(rdefs, Head(failed)))
       THEN [error |-> ExtensionMissing(Unwrap(strip_prefix_host(Head(missing).uri)),
                                        Head(missing).uri),
             registry |-> NoSpecs]
       ELSE IF failed # <<>>
       THEN [error |-> CreateFailed(Unwrap(strip_prefix_host(Head(failed).uri)),
                                    Head(failed).name),
             registry |-> NoSpecs]
       ELSE [error |-> NoError,
             registry |->
                [name \in {rdefs[i].name : i \in DOMAIN rdefs} |->
                    LET def == CHOOSE d \in Range(rdefs) : d.name = name
                        host == strip_prefix_host(def.uri)
                    IN IF host # NoOption
                       THEN LET ext == Unwrap(factory_create(Unwrap(host), def.config))
                            IN RuntimeFeature(def.uri, def.enables, ext.interfaces, Some(ext))
                       ELSE RuntimeFeature(def.uri, def.enables,
                                           get_interfaces_for_runtime_feature(def.uri),
                                           NoOption)]]

\* the exposed arm without its test of the requester
get_enabled_runtime_feature_exposed_to_all(registry, requesting_component, feature_name) ==
    IF feature_name \in DOMAIN registry
    THEN LET runtime_feature == registry[feature_name]
         IN CASE runtime_feature.enables \in {"any", "exposed"} -> Some(runtime_feature)
              [] runtime_feature.enables = "unexposed" ->
                    IF ~requesting_component.exposed THEN Some(runtime_feature) ELSE NoOption
              [] OTHER -> NoOption
    ELSE NoOption

get_enabled_runtime_feature(registry, requesting_component, feature_name) ==
    IF feature_name \in DOMAIN registry
    THEN LET runtime_feature == registry[feature_name]
         IN CASE runtime_feature.enables = "none" -> NoOption
              [] runtime_feature.enables = "any" -> Some(runtime_feature)
              [] runtime_feature.enables = "exposed" ->
                    IF requesting_component.exposed THEN Some(runtime_feature) ELSE NoOption
              [] runtime_feature.enables = "unexposed" ->
                    IF ~requesting_component.exposed THEN Some(runtime_feature) ELSE NoOption
              [] runtime_feature.enables = "package" -> NoOption
              [] runtime_feature.enables = "namespace" -> NoOption
              [] OTHER -> NoOption
    ELSE NoOption

ComponentRegistry(components, enabling) ==
    [components |-> components, enabling_components |-> enabling]

EnablingComponent(component, exposed, enables) ==
    [component |-> component, exposed |-> exposed, enables |-> enables]

\* the (Some, Some) guard of the metadata scopes compared as plain Options
SameMetadata_none_matches(requesting, enabling) == requesting = enabling

\* (Some(req), Some(enable)) if req == enable
SameMetadata(requesting, enabling) ==
    requesting # NoOption /\ enabling # NoOption /\ requesting = enabling

get_enabled_component_dependency(registry, requesting_component, requesting_metadata, dependency_name) ==
    IF dependency_name \in DOMAIN registry.enabling_components
    THEN LET enabling_component == registry.enabling_components[dependency_name]
         IN CASE enabling_component.enables = "none" -> NoOption
              [] enabling_component.enables = "any" -> Some(enabling_component.component)
              [] enabling_component.enables = "exposed" ->
                    IF requesting_component.exposed
                    THEN Some(enabling_component.component) ELSE NoOption
              [] enabling_component.enables = "unexposed" ->
                    IF ~requesting_component.exposed
                    THEN Some(enabling_component.component) ELSE NoOption
              [] enabling_component.enables = "package" ->
                    IF SameMetadata(requesting_metadata.package,
                                    enabling_component.component.package)
                    THEN Some(enabling_component.component) ELSE NoOption
              [] enabling_component.enables = "namespace" ->
                    IF SameMetadata(requesting_metadata.namespace,
                                    enabling_component.component.namespace)
                    THEN Some(enabling_component.component) ELSE NoOption
              [] OTHER -> NoOption
    ELSE NoOption

\* Some((major, minor, patch)) as the triple, None as <<>>
parse_semver(version) ==
    LET parts == split(version, ".")
    IN IF Len(parts) = 3 /\ \A i \in 1..3 : parse_u32(parts[i]) # NoOption
       THEN <<Unwrap(parse_u32(parts[1])), Unwrap(parse_u32(parts[2])),
              Unwrap(parse_u32(parts[3]))>>
       ELSE <<>>

\* the loop body without its comparison of the minor versions
SemverCompatible_any_minor(interface_name, requested_semver, available) ==
    /\ rsplit_once(available, "@") # NoOption
    /\ LET available_name == Unwrap(rsplit_once(available, "@"))[1]
           available_semver == parse_semver(Unwrap(rsplit_once(available, "@"))[2])
       IN /\ interface_name = available_name
          /\ available_semver # <<>>
          /\ available_semver[1] = requested_semver[1]
          /\ u32_le(requested_semver[3], available_semver[3])

\* the loop body: this available interface answers for the requested one
SemverCompatible(interface_name, requested_semver, available) ==
    /\ rsplit_once(available, "@") # NoOption
    /\ LET available_name == Unwrap(rsplit_once(available, "@"))[1]
           available_semver == parse_semver(Unwrap(rsplit_once(available, "@"))[2])
       IN /\ interface_name = available_name
          /\ available_semver # <<>>
          /\ available_semver[1] = requested_semver[1]
          /\ available_semver[2] = requested_semver[2]
          /\ u32_le(requested_semver[3], available_semver[3])

is_import_satisfied(import, runtime_interfaces) ==
    \/ import \in runtime_interfaces
    \/ /\ rsplit_once(import, "@") # NoOption
       /\ parse_semver(Unwrap(rsplit_once(import, "@"))[2]) # <<>>
       /\ \E available \in runtime_interfaces :
             SemverCompatible(Unwrap(rsplit_once(import, "@"))[1],
                              parse_semver(Unwrap(rsplit_once(import, "@"))[2]), available)

ComponentSpec(name, namespace, package, imports, exports, features, functions) ==
    [name |-> name, namespace |-> namespace, package |-> package, imports |-> imports,
     exports |-> exports, runtime_features |-> features, functions |-> functions]

\* the errors of process_component, by their messages
BytesUnreadable(component) == [kind |-> "bytes_unreadable", component |-> component]

DependencyDisabled(component, dependency) ==
    [kind |-> "dependency_disabled", component |-> component, dependency |-> dependency]

FeatureDisabled(component, feature) ==
    [kind |-> "feature_disabled", component |-> component, dependency |-> feature]

ImportsUnsatisfied(component, unsatisfied) ==
    [kind |-> "imports_unsatisfied", component |-> component, unsatisfied |-> unsatisfied]

\* import.starts_with("wasi:config/store")
ImportsConfigStore(import) == Head(import) = "wasi:config/store"

\* ComponentGraph::get_dependencies: the sources of the incoming edges
get_dependencies(es, name) == {e.source : e \in {x \in es : x.target = name}}

\* the orders an iterator may yield the elements of S in
Orderings(S) == {s \in [1..Cardinality(S) -> S] : Range(s) = S}

\* the component nodes in any order, whatever the edges
get_build_order_unsorted(cdefs, es) == Orderings({cdefs[i].name : i \in DOMAIN cdefs})

\* ComponentGraph::get_build_order, kept to the component nodes the walk acts on
get_build_order(cdefs, es) ==
    LET names == {cdefs[i].name : i \in DOMAIN cdefs}
    IN {s \in Orderings(names) :
           \A i, j \in DOMAIN s :
              (\E e \in es : e.source = s[i] /\ e.target = s[j]) => i < j}

\* the dependency's accumulated features are left out of the consumer's set
extend_runtime_features_direct_only(all_runtime_features, component_spec) == all_runtime_features

\* all_runtime_features.extend(component_spec.runtime_features)
extend_runtime_features(all_runtime_features, component_spec) == all_runtime_features \cup component_spec.runtime_features

\* one iteration of the dependency loop of process_component
ComposeDependency(definition, metadata, acc, dependency) ==
    IF acc.error # NoError
    THEN acc
    ELSE IF IsComponent(component_definitions, dependency)
    THEN LET found == get_enabled_component_dependency(
                          ComponentRegistry(built_components, enabling_components),
                          definition, metadata, dependency)
         IN IF found # NoOption
            THEN LET component_spec == CHOOSE s \in found : TRUE
                 IN [acc EXCEPT
                        !.imports = @ \ component_spec.exports,
                        !.runtime_features = extend_runtime_features(@, component_spec),
                        !.requests = Append(@, [provider |-> dependency, resolved |-> TRUE])]
            ELSE [acc EXCEPT
                     !.error = DependencyDisabled(definition.name, dependency),
                     !.requests = Append(@, [provider |-> dependency, resolved |-> FALSE])]
    ELSE IF get_enabled_runtime_feature(runtime_features, definition, dependency) # NoOption
         THEN [acc EXCEPT
                  !.runtime_features = @ \cup {dependency},
                  !.requests = Append(@, [provider |-> dependency, resolved |-> TRUE])]
         ELSE [acc EXCEPT
                  !.error = FeatureDisabled(definition.name, dependency),
                  !.requests = Append(@, [provider |-> dependency, resolved |-> FALSE])]

\* the interfaces of one of the accumulated features only
collect_runtime_interfaces_of_one(registry, all_runtime_features) ==
    LET known == all_runtime_features \cap DOMAIN registry
    IN IF known = {} THEN {} ELSE registry[CHOOSE f \in known : TRUE].interfaces

\* runtime_interfaces: the interfaces of all the accumulated features that are registered
collect_runtime_interfaces(registry, all_runtime_features) ==
    UNION {registry[f].interfaces : f \in all_runtime_features \cap DOMAIN registry}

RECURSIVE ComposeDependencies(_, _, _, _)
ComposeDependencies(definition, metadata, acc, dependencies) ==
    IF dependencies = <<>>
    THEN acc
    ELSE ComposeDependencies(definition, metadata,
                             ComposeDependency(definition, metadata, acc, Head(dependencies)),
                             Tail(dependencies))

\* the check of the remaining imports left out: nothing is reported unsatisfied
unsatisfied_imports_none(imports, runtime_interfaces) == {}

\* process_component: the imports that no interface of the runtime features satisfies
unsatisfied_imports(imports, runtime_interfaces) ==
    {i \in imports : ~is_import_satisfied(i, runtime_interfaces)}

\* the Result of process_component and the requests it made on the way;
\* `dependencies` is the order get_dependencies yields the providers in
process_component(definition, dependencies) ==
    LET bytes == wasm[definition.name]
        metadata == [namespace |-> bytes.namespace, package |-> bytes.package]
        imports == {i \in bytes.imports : ~ImportsConfigStore(i)}
        composed == ComposeDependencies(definition, metadata,
                        [imports |-> imports, runtime_features |-> {},
                         requests |-> <<>>, error |-> NoError],
                        dependencies)
        runtime_interfaces ==
            collect_runtime_interfaces(runtime_features, composed.runtime_features)
        unsatisfied == unsatisfied_imports(composed.imports, runtime_interfaces)
    IN IF ~bytes.readable
       THEN [error |-> BytesUnreadable(definition.name), spec |-> NoOption, requests |-> <<>>]
       ELSE IF composed.error # NoError
       THEN [error |-> composed.error, spec |-> NoOption, requests |-> composed.requests]
       ELSE IF unsatisfied # {}
       THEN [error |-> ImportsUnsatisfied(definition.name, unsatisfied), spec |-> NoOption,
             requests |-> composed.requests]
       ELSE [error |-> NoError,
             spec |-> Some(ComponentSpec(definition.name, metadata.namespace, metadata.package,
                                         composed.imports, bytes.exports,
                                         composed.runtime_features, bytes.functions)),
             requests |-> composed.requests]

\* build_registries up to the loop: the feature registry, or its error, and the
\* build order
BeginRegistries ==
    /\ pc = "graph"
    /\ LET created == create_runtime_feature_registry(runtime_feature_definitions, factories)
       IN IF created.error # NoError
          THEN /\ pc' = "fatal"
               /\ error' = created.error
               /\ UNCHANGED <<runtime_features, build_order, cursor>>
          ELSE /\ runtime_features' = created.registry
               /\ build_order' \in get_build_order(component_definitions, graph)
               /\ cursor' = 1
               /\ pc' = "walk"
               /\ UNCHANGED error
    /\ UNCHANGED <<component_definitions, runtime_feature_definitions, wasm, graph, redirects,
                   built_components, exposed_components, enabling_components, results>>
    /\ UNCHANGED <<inputVars, marshalVars, cliVars, runtimeVars, importVars>>

\* the Err arm without its test of `exposed`: every failure is a warning
SkipExposed_always(definition) == TRUE

\* process_component returned Err: warn and go on if the component is exposed

SkipExposed(definition) == definition.exposed

\* build_registries: one iteration of the loop over the build order
ProcessComponent ==
    /\ pc = "walk"
    /\ cursor <= Len(build_order)
    /\ LET name == build_order[cursor]
           definition == DefOf(component_definitions, name)
       IN \E dependencies \in Orderings(get_dependencies(graph, name)) :
             LET temp_component_registry ==
                     ComponentRegistry(built_components, enabling_components)
                 result == process_component(definition, dependencies)
             IN /\ results' = results @@
                                 (name :> [error |-> result.error, spec |-> result.spec,
                                           requests |-> result.requests,
                                           registry |-> temp_component_registry])
                /\ IF result.error = NoError
                   THEN LET component_spec == CHOOSE s \in result.spec : TRUE
                        IN /\ built_components' = built_components @@ (name :> component_spec)
                           /\ exposed_components' =
                                 IF definition.exposed
                                 THEN exposed_components @@ (name :> component_spec)
                                 ELSE exposed_components
                           /\ enabling_components' =
                                 IF definition.enables # "none"
                                 THEN enabling_components @@
                                         (name :> EnablingComponent(component_spec,
                                                     definition.exposed, definition.enables))
                                 ELSE enabling_components
                           /\ UNCHANGED <<pc, error>>
                   ELSE /\ IF SkipExposed(definition)
                           THEN UNCHANGED <<pc, error>>
                           ELSE pc' = "fatal" /\ error' = result.error
                        /\ UNCHANGED <<built_components, exposed_components,
                                       enabling_components>>
    /\ cursor' = cursor + 1
    /\ UNCHANGED <<component_definitions, runtime_feature_definitions, wasm, graph, redirects,
                   build_order, runtime_features>>
    /\ UNCHANGED <<inputVars, marshalVars, cliVars, runtimeVars, importVars>>

\* build_registries returns Ok with the public map and the enabling records
FinishRegistries ==
    /\ pc = "walk"
    /\ cursor > Len(build_order)
    /\ pc' = "done"
    /\ UNCHANGED <<component_definitions, runtime_feature_definitions, wasm, graph, redirects,
                   error, build_order, cursor, built_components, exposed_components,
                   enabling_components, runtime_features, results>>
    /\ UNCHANGED <<inputVars, marshalVars, cliVars, runtimeVars, importVars>>

-----------------------------------------------------------------------------
(* runtime.rs: values, their JSON rendering and the return shape of invoke *)

\* wasmtime::component::Val, the cases the guests here return
U32(n) == [val |-> "U32", n |-> n]
Bool(b) == [val |-> "Bool", b |-> b]
String(s) == [val |-> "String", s |-> s]
OptionVal(payload) == [val |-> "Option", payload |-> payload]
ResultOk(payload) == [val |-> "Result", arm |-> "ok", payload |-> payload]
ResultErr(payload) == [val |-> "Result", arm |-> "error", payload |-> payload]
Tuple(items) == [val |-> "Tuple", items |-> items]
Char(c) == [val |-> "Char", c |-> c]
IntVal(type, n) == [val |-> type, n |-> n]
List(items) == [val |-> "List", items |-> items]
Record(fields) == [val |-> "Record", fields |-> fields]
Variant(name, payload) == [val |-> "Variant", name |-> name, payload |-> payload]
Enum(variant) == [val |-> "Enum", variant |-> variant]
Flags(flags) == [val |-> "Flags", flags |-> flags]

\* the integer types of the component model, their widths and signedness
IntTypes == {"U8", "U16", "U32", "U64", "S8", "S16", "S32", "S64"}

Bits(type) ==
    CASE type \in {"U8", "S8"} -> 8
      [] type \in {"U16", "S16"} -> 16
      [] type \in {"U32", "S32"} -> 32
      [] type \in {"U64", "S64"} -> 64

Signed(type) == type \in {"S8", "S16", "S32", "S64"}

\* wasmtime::component::Type
PrimType(type) == [type |-> type]
ListType(ty) == [type |-> "List", ty |-> ty]
TupleType(types) == [type |-> "Tuple", types |-> types]
Field(name, ty) == [name |-> name, ty |-> ty]
RecordType(fields) == [type |-> "Record", fields |-> fields]
OptionType(ty) == [type |-> "Option", ty |-> ty]
EnumType(names) == [type |-> "Enum", names |-> names]
FlagsType(names) == [type |-> "Flags", names |-> names]
Case(name, ty) == [name |-> name, ty |-> ty]
VariantType(cases) == [type |-> "Variant", cases |-> cases]
ResultType(ok, err) == [type |-> "Result", ok |-> ok, err |-> err]

\* serde_json::Value
JsonNull == [json |-> "null"]
JsonNumber(n) == [json |-> "number", n |-> n]
JsonBool(b) == [json |-> "bool", b |-> b]
JsonString(s) == [json |-> "string", s |-> s]
JsonArray(items) == [json |-> "array", items |-> items]
JsonObject(fields) == [json |-> "object", fields |-> fields]
\* a serde_json Number holding an f64 (N::Float): any number written with a fraction or exponent
JsonFloat(tenths) == [json |-> "float", tenths |-> tenths]


\* the last position of a name in a Vec<(String, Val)>: Map::insert overwrites
LastNamed(fields, name) ==
    CHOOSE i \in DOMAIN fields :
        /\ fields[i].name = name
        /\ \A j \in DOMAIN fields : fields[j].name = name => j <= i

\* the object of a variant: "type" first, then the payload's entries inserted over it
variant_object(name, payload) ==
    IF payload = NoOption
    THEN JsonObject([k \in {"type"} |-> JsonString(<<name>>)])
    ELSE LET json == Unwrap(payload)
         IN IF json.json = "object"
            THEN JsonObject([k \in {"type"} \cup DOMAIN json.fields |->
                                IF k \in DOMAIN json.fields
                                THEN json.fields[k] ELSE JsonString(<<name>>)])
            ELSE JsonObject([k \in {"type", "value"} |->
                                IF k = "value" THEN json ELSE JsonString(<<name>>)])

RECURSIVE val_to_json(_)
val_to_json(v) ==
    CASE v.val = "Bool" -> JsonBool(v.b)
      [] v.val = "String" -> JsonString(v.s)
      [] v.val = "Char" -> JsonString(<<v.c>>)
      [] v.val \in IntTypes -> JsonNumber(v.n)
      [] v.val = "List" -> JsonArray([i \in DOMAIN v.items |-> val_to_json(v.items[i])])
      [] v.val = "Record" ->
            JsonObject([k \in {v.fields[i].name : i \in DOMAIN v.fields} |->
                           val_to_json(v.fields[LastNamed(v.fields, k)].val)])
      [] v.val = "Option" ->
            IF v.payload # NoOption THEN val_to_json(Unwrap(v.payload)) ELSE JsonNull
      [] v.val = "Tuple" -> JsonArray([i \in DOMAIN v.items |-> val_to_json(v.items[i])])
      [] v.val = "Variant" ->
            variant_object(v.name,
                           IF v.payload # NoOption
                           THEN Some(val_to_json(Unwrap(v.payload))) ELSE NoOption)
      [] v.val = "Enum" -> JsonString(<<v.variant>>)
      [] v.val = "Flags" -> JsonArray([i \in DOMAIN v.flags |-> JsonString(<<v.flags[i]>>)])
      [] v.val = "Result" ->
            JsonObject([k \in {v.arm} |->
                           IF v.payload # NoOption
                           THEN val_to_json(Unwrap(v.payload)) ELSE JsonNull])

\* Result<Val> of json_to_val
Ok(v) == [ok |-> TRUE, val |-> v]
Err(e) == [ok |-> FALSE, error |-> e]

SingleCharExpected(s) == [kind |-> "expected_single_character", got |-> s]
InvalidNumber(type) == [kind |-> "invalid_number", for |-> type]
ListItemError(index, cause) == [kind |-> "list_item", index |-> index, cause |-> cause]
TupleItemError(index, cause) == [kind |-> "tuple_item", index |-> index, cause |-> cause]
TupleLengthMismatch(expected, got) ==
    [kind |-> "tuple_length_mismatch", expected |-> expected, got |-> got]
MissingField(name) == [kind |-> "missing_required_field", name |-> name]
\* the key named is the first of these in the iteration order of the JSON object
UnexpectedField(keys) == [kind |-> "unexpected_field", among |-> keys]
TypeMismatch == [kind |-> "type_mismatch"]

\* Number::as_u64: the value of a non-negative integer, None for N::NegInt and N::Float
as_u64(number) ==
    IF number.json = "number" /\ number.n >= 0 THEN Some(number.n) ELSE NoOption

\* Number::as_i64: the value of an integer that fits i64 (every integer here), None for N::Float
as_i64(number) == IF number.json = "number" THEN Some(number.n) ELSE NoOption

\* the `as u8` .. `as i32` casts: the low bits of the value, read in two's complement.
\* Integers here lie within -2^31 .. 2^31-1, where the casts to 32 bits keep the value
\* (as_u64 has refused the negative ones before `as u32`); u64 and s64 are not cast.
as_cast(n, type) ==
    IF Bits(type) >= 32
    THEN n
    ELSE LET modulus == 2 ^ Bits(type)
             low == n % modulus
         IN IF Signed(type) /\ low >= modulus \div 2 THEN low - modulus ELSE low

number_to_val(number, type) ==
    LET read == IF Signed(type) THEN as_i64(number) ELSE as_u64(number)
    IN IF read = NoOption
       THEN Err(InvalidNumber(type))
       ELSE Ok(IntVal(type, as_cast(Unwrap(read), type)))

FirstFailure(converted) ==
    LET failing == {i \in DOMAIN converted : ~converted[i].ok}
    IN IF failing = {} THEN 0 ELSE CHOOSE i \in failing : \A j \in failing : i <= j

\* a record field the JSON object does not hold is refused, optional or not
absent_field_required(field) == Err(MissingField(field.name))

\* a record field the JSON object does not hold: none for an option type, else an error
absent_field(field) ==
    IF field.ty.type = "Option"
    THEN Ok(OptionVal(NoOption))
    ELSE Err(MissingField(field.name))

RECURSIVE json_to_val(_, _)
json_to_val(json_val, type) ==
    CASE json_val.json = "bool" /\ type.type = "Bool" -> Ok(Bool(json_val.b))
      [] json_val.json = "string" /\ type.type = "String" -> Ok(String(json_val.s))
      [] json_val.json = "string" /\ type.type = "Char" ->
            IF Len(json_val.s) = 1
            THEN Ok(Char(json_val.s[1])) ELSE Err(SingleCharExpected(json_val.s))
      [] json_val.json \in {"number", "float"} /\ type.type \in IntTypes ->
            number_to_val(json_val, type.type)
      [] json_val.json = "array" /\ type.type = "List" ->
            LET items == [i \in DOMAIN json_val.items |->
                             json_to_val(json_val.items[i], type.ty)]
                bad == FirstFailure(items)
            IN IF bad # 0
               THEN Err(ListItemError(bad - 1, items[bad].error))
               ELSE Ok(List([i \in DOMAIN items |-> items[i].val]))
      [] json_val.json = "array" /\ type.type = "Tuple" ->
            IF Len(json_val.items) # Len(type.types)
            THEN Err(TupleLengthMismatch(Len(type.types), Len(json_val.items)))
            ELSE LET items == [i \in DOMAIN json_val.items |->
                                  json_to_val(json_val.items[i], type.types[i])]
                     bad == FirstFailure(items)
                 IN IF bad # 0
                    THEN Err(TupleItemError(bad - 1, items[bad].error))
                    ELSE Ok(Tuple([i \in DOMAIN items |-> items[i].val]))
      [] json_val.json = "object" /\ type.type = "Record" ->
            LET obj == json_val.fields
                fields == [i \in DOMAIN type.fields |->
                              IF type.fields[i].name \in DOMAIN obj
                              THEN json_to_val(obj[type.fields[i].name], type.fields[i].ty)
                              ELSE absent_field(type.fields[i])]
                bad == FirstFailure(fields)
                extra == DOMAIN obj \ {type.fields[i].name : i \in DOMAIN type.fields}
            IN IF bad # 0
               THEN fields[bad]
               ELSE IF extra # {}
                    THEN Err(UnexpectedField(extra))
                    ELSE Ok(Record([i \in DOMAIN fields |->
                                       [name |-> type.fields[i].name, val |-> fields[i].val]]))
      [] json_val.json = "null" /\ type.type = "Option" -> Ok(OptionVal(NoOption))
      [] json_val.json # "null" /\ type.type = "Option" ->
            LET inner_val == json_to_val(json_val, type.ty)
            IN IF inner_val.ok THEN Ok(OptionVal(Some(inner_val.val))) ELSE inner_val
      [] OTHER -> Err(TypeMismatch)

ComponentReturnedError(payload) == [kind |-> "component_returned_error", payload |-> payload]

RecordMismatch(count, fields) ==
    [kind |-> "record_mismatch", count |-> count, fields |-> fields]

\* Function::result(): no schema, or an object schema with its property names
NoSchema == [type |-> "none", properties |-> <<>>]
ObjectSchema(properties) == [type |-> "object", properties |-> properties]

\* Ok(json) / Err(e) of the match on results.len() that ends Invoker::invoke
Returned(json) == [error |-> NoError, value |-> Some(json)]
Failed(e) == [error |-> e, value |-> NoOption]

reconstruct_record(vals, schema) ==
    IF Len(vals) # Len(schema.properties)
    THEN Failed(RecordMismatch(Len(vals), Len(schema.properties)))
    ELSE Returned(JsonObject([k \in Range(schema.properties) |->
                     val_to_json(vals[CHOOSE i \in DOMAIN schema.properties :
                                            schema.properties[i] = k])]))

reconstruct_wit_return(vals, schema) ==
    IF schema.type = "object"
    THEN reconstruct_record(vals, schema)
    ELSE Returned(JsonArray([i \in DOMAIN vals |-> val_to_json(vals[i])]))

\* any single result is converted, an error arm like every other value
invoke_return_error_arm_converted(vals, schema) ==
    CASE Len(vals) = 0 -> Returned(JsonNull)
      [] Len(vals) = 1 -> Returned(val_to_json(vals[1]))
      [] OTHER -> reconstruct_wit_return(vals, schema)

invoke_return(vals, schema) ==
    CASE Len(vals) = 0 -> Returned(JsonNull)
      [] Len(vals) = 1 ->
            LET value == vals[1]
            IN IF value.val = "Result" /\ value.arm = "error"
               THEN IF value.payload # NoOption
                    THEN Failed(ComponentReturnedError(Some(val_to_json(Unwrap(value.payload)))))
                    ELSE Failed(ComponentReturnedError(NoOption))
               ELSE Returned(val_to_json(value))
      [] OTHER -> reconstruct_wit_return(vals, schema)

-----------------------------------------------------------------------------
(* runtime.rs: the Runtime built from the registries *)

\* calls made on one Runtime
MaxInvocations == 2

ComponentNotFound(name) == [kind |-> "component_not_found", component |-> name]

FunctionNotFound(name, function) ==
    [kind |-> "function_not_found", component |-> name, function |-> function]

DuplicateExtensionState(feature_name) ==
    [kind |-> "duplicate_extension_state", feature |-> feature_name]

\* the lookup made in the scratch map of everything built
get_component_among_built(name) ==
    IF name \in DOMAIN built_components THEN Some(built_components[name]) ELSE NoOption

\* ComponentRegistry::get_component on the registry the Runtime holds
get_component(name) ==
    IF name \in DOMAIN exposed_components THEN Some(exposed_components[name]) ELSE NoOption

\* Runtime::list_components, by name
list_components == {exposed_components[n].name : n \in DOMAIN exposed_components}

\* the loop body with a plain insert: a later state replaces an earlier one of its type
CollectState_overwriting(acc, feature_name) ==
    IF acc.error # NoError \/ feature_name \notin DOMAIN runtime_features
    THEN acc
    ELSE LET runtime_feature == runtime_features[feature_name]
         IN IF /\ strip_prefix_host(runtime_feature.uri) # NoOption
               /\ runtime_feature.extension # NoOption
               /\ Unwrap(runtime_feature.extension).state # NoOption
            THEN LET created == Unwrap(Unwrap(runtime_feature.extension).state)
                 IN [acc EXCEPT
                        !.extensions = (created.type_id :> created.value) @@ @]
            ELSE acc

\* one iteration of the loop that collects the extension states
CollectState(acc, feature_name) ==
    IF acc.error # NoError \/ feature_name \notin DOMAIN runtime_features
    THEN acc
    ELSE LET runtime_feature == runtime_features[feature_name]
         IN IF /\ strip_prefix_host(runtime_feature.uri) # NoOption
               /\ runtime_feature.extension # NoOption
               /\ Unwrap(runtime_feature.extension).state # NoOption
            THEN LET created == Unwrap(Unwrap(runtime_feature.extension).state)
                 IN IF created.type_id \in DOMAIN acc.extensions
                    THEN [acc EXCEPT !.error = DuplicateExtensionState(feature_name)]
                    ELSE [acc EXCEPT
                             !.extensions = @ @@ (created.type_id :> created.value)]
            ELSE acc

RECURSIVE CollectStates(_, _)
CollectStates(acc, feature_names) ==
    IF feature_names = <<>>
    THEN acc
    ELSE CollectStates(CollectState(acc, Head(feature_names)), Tail(feature_names))

\* Invoker::instantiate_from_bytes: the extension-state bag of the new instance, or
\* the error; `feature_names` is spec.runtime_features in the order the Vec holds them
instantiate_from_bytes(feature_names) ==
    CollectStates([extensions |-> NoSpecs, error |-> NoError], feature_names)

Invocation(op, name, function, status, err, extensions, calls, outcome) ==
    [op |-> op, component |-> name, function |-> function, status |-> status,
     error |-> err, extensions |-> extensions, calls |-> calls, last |-> 0,
     outcome |-> outcome]

\* the names the embedding may call with
CallNames == Range(ComponentNames) \cup {"ghost"}
FunctionNames == {"run", "absent"}

\* Runtime::invoke up to the first suspension point: lookups and instantiation
StartInvoke ==
    /\ pc = "done"
    /\ Len(invocations) < MaxInvocations
    /\ \E name \in CallNames, function \in FunctionNames :
          LET found == get_component(name)
          IN IF found = NoOption
             THEN invocations' = Append(invocations,
                      Invocation("invoke", name, function, "failed",
                                 ComponentNotFound(name), NoSpecs, 0, NoOption))
             ELSE IF function \notin DOMAIN Unwrap(found).functions
             THEN invocations' = Append(invocations,
                      Invocation("invoke", name, function, "failed",
                                 FunctionNotFound(name, function), NoSpecs, 0, NoOption))
             ELSE \E feature_names \in Orderings(Unwrap(found).runtime_features) :
                     LET instance == instantiate_from_bytes(feature_names)
                     IN invocations' = Append(invocations,
                           IF instance.error # NoError
                           THEN Invocation("invoke", name, function, "failed",
                                           instance.error, NoSpecs, 0, NoOption)
                           ELSE Invocation("invoke", name, function, "running", NoError,
                                           instance.extensions,
                                           Unwrap(found).functions[function].calls,
                                           NoOption))
    /\ UNCHANGED <<component_definitions, runtime_feature_definitions, wasm, pc, graph,
                   redirects, error, build_order, cursor, built_components,
                   exposed_components, enabling_components, runtime_features, results>>
    /\ UNCHANGED <<inputVars, marshalVars, cliVars, importVars>>

\* Runtime::instantiate: the lookup, then the store and the instance for the caller
Instantiate ==
    /\ pc = "done"
    /\ Len(invocations) < MaxInvocations
    /\ \E name \in CallNames :
          LET found == get_component(name)
          IN IF found = NoOption
             THEN invocations' = Append(invocations,
                      Invocation("instantiate", name, None, "failed",
                                 ComponentNotFound(name), NoSpecs, 0, NoOption))
             ELSE \E feature_names \in Orderings(Unwrap(found).runtime_features) :
                     LET instance == instantiate_from_bytes(feature_names)
                     IN invocations' = Append(invocations,
                           IF instance.error # NoError
                           THEN Invocation("instantiate", name, None, "failed",
                                           instance.error, NoSpecs, 0, NoOption)
                           ELSE Invocation("instantiate", name, None, "instance", NoError,
                                           instance.extensions, 0, NoOption))
    /\ UNCHANGED <<component_definitions, runtime_feature_definitions, wasm, pc, graph,
                   redirects, error, build_order, cursor, built_components,
                   exposed_components, enabling_components, runtime_features, results>>
    /\ UNCHANGED <<inputVars, marshalVars, cliVars, importVars>>

\* every host function works on the state of the store created first
data_mut_of_first_store(i) == CHOOSE j \in DOMAIN invocations : \A k \in DOMAIN invocations : j <= k

\* ctx.data_mut(): a host function called by instance i gets the ComponentState of
\* the store that instance lives in
data_mut(i) == i

\* the guest of a running invocation calls the counter extension's increment, which
\* adds one to the CounterState it finds and returns the new count
HostCall ==
    /\ \E i \in DOMAIN invocations :
          /\ invocations[i].status = "running"
          /\ invocations[i].calls > 0
          /\ LET owner == data_mut(i)
             IN IF "CounterState" \in DOMAIN invocations[owner].extensions
                THEN LET count == invocations[owner].extensions["CounterState"] + 1
                         counted == [invocations EXCEPT
                                        ![owner].extensions["CounterState"] = count]
                     IN invocations' = [counted EXCEPT ![i].last = count,
                                                       ![i].calls = @ - 1]
                ELSE invocations' =
                        [invocations EXCEPT ![i].status = "failed",
                                            ![i].error = [kind |-> "call_failed"]]
    /\ UNCHANGED <<component_definitions, runtime_feature_definitions, wasm, pc, graph,
                   redirects, error, build_order, cursor, built_components,
                   exposed_components, enabling_components, runtime_features, results>>
    /\ UNCHANGED <<inputVars, marshalVars, cliVars, importVars>>

\* call_async has returned: the results are shaped into the value invoke returns
Return ==
    /\ \E i \in DOMAIN invocations :
          /\ invocations[i].status = "running"
          /\ invocations[i].calls = 0
          /\ LET function ==
                    exposed_components[invocations[i].component]
                       .functions[invocations[i].function]
                 vals == IF function.counted
                         THEN <<U32(invocations[i].last)>> ELSE function.vals
                 outcome == invoke_return(vals, function.schema)
             IN invocations' =
                   [invocations EXCEPT
                       ![i].status = IF outcome.error = NoError THEN "returned" ELSE "failed",
                       ![i].error = outcome.error,
                       ![i].outcome = outcome.value]
    /\ UNCHANGED <<component_definitions, runtime_feature_definitions, wasm, pc, graph,
                   redirects, error, build_order, cursor, built_components,
                   exposed_components, enabling_components, runtime_features, results>>
    /\ UNCHANGED <<inputVars, marshalVars, cliVars, importVars>>

-----------------------------------------------------------------------------
(* main.rs: the interactive invoke command *)

\* A text is a sequence of characters; a run of letters may be one chunk ("true", "hello").
Quote == "\""
Space == " "

\* str::trim
RECURSIVE trim(_)
trim(text) ==
    IF text # <<>> /\ Head(text) = Space THEN trim(Tail(text))
    ELSE IF text # <<>> /\ text[Len(text)] = Space THEN trim(SubSeq(text, 1, Len(text) - 1))
    ELSE text

\* the first position from i on that holds no whitespace (Len + 1 when there is none)
skip_whitespace(text, i) ==
    LET rest == {j \in i..Len(text) : text[j] # Space}
    IN IF rest = {} THEN Len(text) + 1 ELSE CHOOSE j \in rest : \A k \in rest : j <= k

\* the first position from i on that holds no digit
digits_end(text, i) ==
    LET rest == {j \in i..Len(text) : to_digit(text[j]) = NoOption}
    IN IF rest = {} THEN Len(text) + 1 ELSE CHOOSE j \in rest : \A k \in rest : j <= k

\* the value of a run of digits
RECURSIVE natural(_)
natural(digits) ==
    IF digits = <<>> THEN 0
    ELSE 10 * natural(SubSeq(digits, 1, Len(digits) - 1)) + Unwrap(to_digit(digits[Len(digits)]))

\* the decimal text of a natural number
RECURSIVE decimal(_)
decimal(n) == IF n < 10 THEN Numeral(n) ELSE decimal(n \div 10) \o Numeral(n % 10)

Parsed(value, next) == [ok |-> TRUE, value |-> value, next |-> next]
Unparsed == [ok |-> FALSE]

\* a JSON number: '-'? (0 | [1-9][0-9]*) ('.' [0-9]+)?. An integer is kept exactly, a number
\* with a fraction is an f64, kept in tenths (the texts given have one fractional digit
\* and no exponent, and none is -0)
parse_number(text, i) ==
    LET negative == text[i] = "-"
        start == IF negative THEN i + 1 ELSE i
        stop == digits_end(text, start)
        whole == natural(SubSeq(text, start, stop - 1))
        fraction_end == digits_end(text, stop + 1)
    IN IF stop = start \/ (text[start] = "0" /\ stop > start + 1)
       THEN Unparsed
       ELSE IF stop <= Len(text) /\ text[stop] = "."
            THEN IF fraction_end = stop + 1
                 THEN Unparsed
                 ELSE LET tenths == 10 * whole + Unwrap(to_digit(text[stop + 1]))
                      IN Parsed(JsonFloat(IF negative THEN 0 - tenths ELSE tenths),
                                fraction_end)
            ELSE Parsed(JsonNumber(IF negative THEN 0 - whole ELSE whole), stop)

\* a JSON string without escapes: everything up to the next quote
parse_string(text, i) ==
    LET closing == {j \in (i + 1)..Len(text) : text[j] = Quote}
    IN IF closing = {}
       THEN Unparsed
       ELSE LET close == CHOOSE j \in closing : \A k \in closing : j <= k
            IN Parsed(JsonString(SubSeq(text, i + 1, close - 1)), close + 1)

\* an object with one more member; a repeated key keeps the later value
with_member(members, key, value) ==
    [k \in DOMAIN members \cup {key} |-> IF k = key THEN value ELSE members[k]]

RECURSIVE parse_value(_, _)
RECURSIVE parse_elements(_, _, _)
RECURSIVE parse_members(_, _, _)

\* the elements of an array after '[' or ',', up to and including ']'
parse_elements(text, i, items) ==
    LET element == parse_value(text, skip_whitespace(text, i))
        after == skip_whitespace(text, element.next)
    IN IF ~element.ok \/ after > Len(text)
       THEN Unparsed
       ELSE CASE text[after] = "," ->
                    parse_elements(text, after + 1, Append(items, element.value))
              [] text[after] = "]" ->
                    Parsed(JsonArray(Append(items, element.value)), after + 1)
              [] OTHER -> Unparsed

\* the members of an object after '{' or ',', up to and including '}'
parse_members(text, i, members) ==
    LET at == skip_whitespace(text, i)
        key == IF at <= Len(text) /\ text[at] = Quote THEN parse_string(text, at) ELSE Unparsed
        colon == IF key.ok THEN skip_whitespace(text, key.next) ELSE 0
        member == IF key.ok /\ colon <= Len(text) /\ text[colon] = ":"
                  THEN parse_value(text, skip_whitespace(text, colon + 1))
                  ELSE Unparsed
        after == IF member.ok THEN skip_whitespace(text, member.next) ELSE 0
    IN IF ~member.ok \/ after > Len(text)
       THEN Unparsed
       ELSE CASE text[after] = "," ->
                    parse_members(text, after + 1,
                                  with_member(members, key.value.s, member.value))
              [] text[after] = "}" ->
                    Parsed(JsonObject(with_member(members, key.value.s, member.value)),
                           after + 1)
              [] OTHER -> Unparsed

parse_value(text, i) ==
    IF i > Len(text) THEN Unparsed
    ELSE CASE text[i] = "null" -> Parsed(JsonNull, i + 1)
           [] text[i] = "true" -> Parsed(JsonBool(TRUE), i + 1)
           [] text[i] = "false" -> Parsed(JsonBool(FALSE), i + 1)
           [] text[i] = "-" \/ to_digit(text[i]) # NoOption -> parse_number(text, i)
           [] text[i] = Quote -> parse_string(text, i)
           [] text[i] = "[" ->
                 LET first == skip_whitespace(text, i + 1)
                 IN IF first <= Len(text) /\ text[first] = "]"
                    THEN Parsed(JsonArray(<<>>), first + 1)
                    ELSE parse_elements(text, i + 1, <<>>)
           [] text[i] = "{" ->
                 LET first == skip_whitespace(text, i + 1)
                 IN IF first <= Len(text) /\ text[first] = "}"
                    THEN Parsed(JsonObject(<<>>), first + 1)
                    ELSE parse_members(text, i + 1, <<>>)
           [] OTHER -> Unparsed

\* serde_json::from_str: one value, whitespace around it, and nothing else
from_str(text) ==
    LET parsed == parse_value(text, skip_whitespace(text, 1))
    IN IF parsed.ok /\ skip_whitespace(text, parsed.next) > Len(text)
       THEN Some(parsed.value)
       ELSE NoOption

\* the order of a Map's keys: by their text, here by the first letter
Alphabet == <<"a", "b", "c">>
KeyRank(key) == CHOOSE i \in DOMAIN Alphabet : Alphabet[i] = key[1]

RECURSIVE sorted_keys(_)
sorted_keys(keys) ==
    IF keys = {} THEN <<>>
    ELSE LET first == CHOOSE k \in keys : \A other \in keys : KeyRank(k) <= KeyRank(other)
         IN <<first>> \o sorted_keys(keys \ {first})

\* Number's Display
number_to_string(number) ==
    IF number.json = "number"
    THEN IF number.n < 0 THEN <<"-">> \o decimal(0 - number.n) ELSE decimal(number.n)
    ELSE LET magnitude == IF number.tenths < 0 THEN 0 - number.tenths ELSE number.tenths
         IN (IF number.tenths < 0 THEN <<"-">> ELSE <<>>)
            \o decimal(magnitude \div 10) \o <<".">> \o Numeral(magnitude % 10)

\* serde_json::to_string: the compact text, no whitespace between the tokens
RECURSIVE to_string(_)
RECURSIVE join_items(_)
RECURSIVE join_members(_, _)

join_items(items) ==
    IF items = <<>> THEN <<>>
    ELSE to_string(Head(items))
         \o (IF Len(items) > 1 THEN <<",">> ELSE <<>>) \o join_items(Tail(items))

join_members(fields, keys) ==
    IF keys = <<>> THEN <<>>
    ELSE <<Quote>> \o Head(keys) \o <<Quote, ":">> \o to_string(fields[Head(keys)])
         \o (IF Len(keys) > 1 THEN <<",">> ELSE <<>>) \o join_members(fields, Tail(keys))

to_string(json) ==
    CASE json.json = "null" -> <<"null">>
      [] json.json = "bool" -> IF json.b THEN <<"true">> ELSE <<"false">>
      [] json.json \in {"number", "float"} -> number_to_string(json)
      [] json.json = "string" -> <<Quote>> \o json.s \o <<Quote>>
      [] json.json = "array" -> <<"[">> \o join_items(json.items) \o <<"]">>
      [] json.json = "object" ->
            <<"{">> \o join_members(json.fields, sorted_keys(DOMAIN json.fields)) \o <<"}">>

\* FunctionParam: its name, the "type" of its JSON schema when that is a string, is_optional
Param(name, type, is_optional) ==
    [name |-> name, json_schema |-> [type |-> type], is_optional |-> is_optional]

\* every non-string value is turned into the string of its text
coerce_every_value(json_val, param) ==
    IF param.json_schema.type = Some("string") /\ json_val.json # "string"
    THEN JsonString(to_string(json_val))
    ELSE json_val

\* a number, an object or an array becomes the string of its text when the schema's type
\* is "string"; everything else is kept as it is
coerce(json_val, param) ==
    IF param.json_schema.type = Some("string")
    THEN CASE json_val.json \in {"number", "float"} -> JsonString(number_to_string(json_val))
           [] json_val.json \in {"object", "array"} -> JsonString(to_string(json_val))
           [] OTHER -> json_val
    ELSE json_val

\* parse as any JSON value, falling back to a string, then coerce
final_arg(arg_str, param) ==
    LET trimmed == trim(arg_str)
        json_val == IF from_str(trimmed) # NoOption
                    THEN Unwrap(from_str(trimmed)) ELSE JsonString(trimmed)
    IN coerce(json_val, param)

TooManyArguments(expected, got) ==
    [kind |-> "too_many_arguments", expected |-> expected, got |-> got]
MissingRequiredParameter(name) == [kind |-> "missing_required_parameter", name |-> name]

\* final_args as given to Runtime::invoke / the early return after an error message
Handed(args) == [error |-> NoError, args |-> Some(args)]
Refused(e) == [error |-> e, args |-> NoOption]

\* Commands::Invoke up to the call of Runtime::invoke: the arguments handed over, or the
\* error printed instead
handle_invoke(args, params) ==
    IF Len(args) > Len(params)
    THEN Refused(TooManyArguments(Len(params), Len(args)))
    ELSE LET required == {i \in (Len(args) + 1)..Len(params) : ~params[i].is_optional}
         IN IF required # {}
            THEN Refused(MissingRequiredParameter(
                            params[CHOOSE i \in required : \A j \in required : i <= j].name))
            ELSE Handed([i \in DOMAIN params |->
                            IF i <= Len(args)
                            THEN final_arg(args[i], params[i]) ELSE JsonNull])

HandleInvoke ==
    /\ pc = "cli"
    /\ final_args = NoOption
    /\ final_args' = Some(handle_invoke(cli_args, cli_params))
    /\ UNCHANGED <<cli_args, cli_params>>
    /\ UNCHANGED <<component_definitions, runtime_feature_definitions, wasm, pc, graph,
                   redirects, error, build_order, cursor, built_components,
                   exposed_components, enabling_components, runtime_features, results>>
    /\ UNCHANGED <<inputVars, marshalVars, runtimeVars, importVars>>

-----------------------------------------------------------------------------
(* loader.rs: what build_definitions accepts *)

validate_component_enables_scope(enables) == enables \in EnableScopes

validate_runtime_feature_enables_scope(enables) ==
    enables \in {"none", "unexposed", "exposed", "any"}

Distinct(s) == \A i, j \in DOMAIN s : s[i] = s[j] => i = j

\* the errors of build_definitions, by their messages
InvalidScope(enables) == [kind |-> "invalid_scope", enables |-> enables]

FeatureScopeUnsupported(name, enables) ==
    [kind |-> "feature_scope_unsupported", name |-> name, enables |-> enables]

DuplicateName(name) == [kind |-> "duplicate_name", name |-> name]

ExpectsUndefined(component, expected) ==
    [kind |-> "expects_undefined", component |-> component, expected |-> expected]

\* a standalone path: an .wasm file in a directory, or an OCI reference
WasmPath(dir, stem) == [kind |-> "wasm", dir |-> dir, stem |-> stem]
OciPath(repository, name) == [kind |-> "oci", dir |-> repository, stem |-> name]

\* the file stem of a .wasm path, the last segment before the tag of an OCI reference
implicit_name(path) == path.stem

\* implicit definitions: exposed, default enables, nothing expected
create_implicit_component_definitions(wasm_files) ==
    [i \in DOMAIN wasm_files |->
        ComponentDefinition(implicit_name(wasm_files[i]), default_enables, <<>>, <<>>, 0, TRUE)]

Least(S) == CHOOSE i \in S : \A j \in S : i <= j

\* the two validation loops: the first Err among the features, then the components
validate_enables_scopes(rdefs, cdefs) ==
    LET bad_features == {i \in DOMAIN rdefs :
                            ~validate_runtime_feature_enables_scope(rdefs[i].enables)}
        bad_components == {i \in DOMAIN cdefs :
                              ~validate_component_enables_scope(cdefs[i].enables)}
    IN IF bad_features # {}
       THEN LET def == rdefs[Least(bad_features)]
            IN IF def.enables \in {"package", "namespace"}
               THEN FeatureScopeUnsupported(def.name, def.enables)
               ELSE InvalidScope(def.enables)
       ELSE IF bad_components # {}
       THEN InvalidScope(cdefs[Least(bad_components)].enables)
       ELSE NoError

\* the names in the order the collision loops insert them
definition_names(rdefs, cdefs) ==
    [i \in DOMAIN rdefs |-> rdefs[i].name] \o [i \in DOMAIN cdefs |-> cdefs[i].name]

\* collision detection that sees a repeated name only next to its first use
detect_collision_adjacent(names) ==
    LET repeated == {i \in DOMAIN names : i > 1 /\ names[i - 1] = names[i]}
    IN IF repeated = {} THEN NoError ELSE DuplicateName(names[Least(repeated)])

\* collision detection: the first name that all_names already holds
detect_collision(names) ==
    LET repeated == {i \in DOMAIN names : \E j \in 1..(i - 1) : names[j] = names[i]}
    IN IF repeated = {} THEN NoError ELSE DuplicateName(names[Least(repeated)])

\* validation of the expectations where exposed components get no exemption
validate_expects_strictly(cdefs, all_names) ==
    LET missing == {i \in DOMAIN cdefs :
                       \E k \in DOMAIN cdefs[i].expects : cdefs[i].expects[k] \notin all_names}
    IN IF missing = {}
       THEN NoError
       ELSE LET def == cdefs[Least(missing)]
            IN ExpectsUndefined(def.name,
                  def.expects[Least({k \in DOMAIN def.expects : def.expects[k] \notin all_names})])

\* validation of the expectations: the first undefined name a component that is not
\* exposed expects
validate_expects(cdefs, all_names) ==
    LET missing == {i \in DOMAIN cdefs :
                       /\ ~cdefs[i].exposed
                       /\ \E k \in DOMAIN cdefs[i].expects : cdefs[i].expects[k] \notin all_names}
    IN IF missing = {}
       THEN NoError
       ELSE LET def == cdefs[Least(missing)]
            IN ExpectsUndefined(def.name,
                  def.expects[Least({k \in DOMAIN def.expects : def.expects[k] \notin all_names})])

\* build_definitions after the files are parsed: the first Err in the order of the
\* code, or NoError
validate_definitions(rdefs, cdefs) ==
    IF validate_enables_scopes(rdefs, cdefs) # NoError
    THEN validate_enables_scopes(rdefs, cdefs)
    ELSE IF detect_collision(definition_names(rdefs, cdefs)) # NoError
    THEN detect_collision(definition_names(rdefs, cdefs))
    ELSE validate_expects(cdefs, Range(definition_names(rdefs, cdefs)))

\* build_definitions returned Ok for these definitions
build_definitions(rdefs, cdefs) == validate_definitions(rdefs, cdefs) = NoError

\* load_definitions up to the graph: the definitions of the manifests, then the
\* implicit ones of the standalone paths, validated
LoadDefinitions ==
    /\ pc = "files"
    /\ LET rdefs == definition_files.toml_features
           cdefs == definition_files.toml_components \o
                       create_implicit_component_definitions(definition_files.wasm_files)
           failure == validate_definitions(rdefs, cdefs)
       IN IF failure # NoError
          THEN /\ pc' = "rejected"
               /\ error' = failure
               /\ UNCHANGED <<component_definitions, runtime_feature_definitions>>
          ELSE /\ runtime_feature_definitions' = rdefs
               /\ component_definitions' = cdefs
               /\ pc' = "definitions"
               /\ UNCHANGED error
    /\ UNCHANGED <<wasm, graph, redirects, build_order, cursor, built_components,
                   exposed_components, enabling_components, runtime_features, results>>
    /\ UNCHANGED <<inputVars, marshalVars, cliVars, runtimeVars, importVars>>

-----------------------------------------------------------------------------
(* Manifests of the graph builder's runs *)

AllNames == Range(FeatureNames) \cup Range(ComponentNames)

\* names a component may list in `expects`; "ghost" is defined nowhere
ExpectsChoices == {<<>>} \cup {<<t>> : t \in AllNames \cup {"ghost"}}

\* names an interceptor may list in `intercepts`
InterceptTargets == {FeatureNames[1], ComponentNames[1]}

PlainDefinitions(n) ==
    {ComponentDefinition(n, default_enables, e, <<>>, 0, x) :
        e \in ExpectsChoices, x \in BOOLEAN}

InterceptorDefinitions(n) ==
    {ComponentDefinition(n, s, <<>>, <<t>>, p, x) :
        s \in EnableScopes, t \in InterceptTargets, p \in 0..MaxPrecedence, x \in BOOLEAN}

GraphManifests ==
    {m \in [DOMAIN ComponentNames ->
              UNION {PlainDefinitions(ComponentNames[i]) \cup InterceptorDefinitions(ComponentNames[i])
                     : i \in DOMAIN ComponentNames}] :
        /\ \A i \in DOMAIN m : m[i].name = ComponentNames[i]
        /\ Cardinality({i \in DOMAIN m : m[i].intercepts # <<>>}) <= MaxInterceptors}

\* the definitions of the .toml files, in file order, and the stems of the .wasm files
DefinitionFiles(features, components, wasm_files) ==
    [toml_features |-> features, toml_components |-> components, wasm_files |-> wasm_files]

\* no question is put to is_import_satisfied
ImportIdle == asked = None /\ provided = {} /\ satisfied = NoOption

\* no value is being marshalled
MarshalIdle ==
    /\ json_value = NoOption /\ val_type = NoOption
    /\ inbound = NoOption /\ val = NoOption /\ outbound = NoOption

\* no command is being handled
CliIdle == cli_args = <<>> /\ cli_params = <<>> /\ final_args = NoOption

NoWasm == [n \in Range(ComponentNames) |-> None]

InitGraph ==
    /\ runtime_feature_definitions =
          [i \in DOMAIN FeatureNames |->
              RuntimeFeatureDefinition(FeatureNames[i], "wasmtime:some-infra", "any")]
    /\ component_definitions \in GraphManifests
    /\ build_definitions(runtime_feature_definitions, component_definitions)
    /\ wasm = NoWasm
    /\ pc = "definitions"
    /\ graph = {}
    /\ redirects = {}
    /\ error = NoError
    /\ build_order = <<>>
    /\ cursor = 0
    /\ built_components = NoSpecs
    /\ exposed_components = NoSpecs
    /\ enabling_components = NoSpecs
    /\ runtime_features = NoSpecs
    /\ results = NoSpecs
    /\ definition_files =
          DefinitionFiles(runtime_feature_definitions, component_definitions, <<>>)
    /\ factories = {}
    /\ invocations = <<>>
    /\ ImportIdle
    /\ MarshalIdle
    /\ CliIdle

SpecGraph == InitGraph /\ [][BuildGraph]_vars

-----------------------------------------------------------------------------
(* Definition files given to the loader *)

\* the runtime features of the manifests: scopes that are valid, valid for components
\* only, or unknown; a name used twice; a name a component uses too
LoaderFeatures ==
    {<<RuntimeFeatureDefinition("infra", "wasmtime:some-infra", s)>> :
        s \in {"any", "package", "everyone"}}
    \cup {<<RuntimeFeatureDefinition("infra", "wasmtime:some-infra", "any"),
            RuntimeFeatureDefinition(n, "wasmtime:some-extra", "any")>> :
           n \in {"infra", "beta"}}

\* the components of the manifests: alpha, then a second one that may repeat a name
LoaderComponents ==
    {<<ComponentDefinition("alpha", sa, ea, <<>>, 0, xa),
       ComponentDefinition(nb, "any", eb, <<>>, 0, xb)>> :
        sa \in {default_enables, "everyone"},
        ea \in {<<>>, <<"ghost">>, <<"infra", "ghost">>, <<"beta">>}, xa \in BOOLEAN,
        nb \in {"alpha", "beta", "infra"},
        eb \in {<<>>, <<"ghost">>, <<"gamma">>}, xb \in BOOLEAN}

\* the standalone paths
LoaderPaths ==
    {<<>>, <<WasmPath("one", "gamma")>>, <<WasmPath("one", "alpha")>>,
     <<WasmPath("one", "gamma"), WasmPath("two", "gamma")>>,
     <<WasmPath("one", "gamma"), OciPath("ghcr.io/modulewise", "beta")>>}

InitLoader ==
    /\ \E features \in LoaderFeatures, components \in LoaderComponents, paths \in LoaderPaths :
          definition_files = DefinitionFiles(features, components, paths)
    /\ pc = "files"
    /\ runtime_feature_definitions = <<>>
    /\ component_definitions = <<>>
    /\ wasm = NoWasm
    /\ graph = {}
    /\ redirects = {}
    /\ error = NoError
    /\ build_order = <<>>
    /\ cursor = 0
    /\ built_components = NoSpecs
    /\ exposed_components = NoSpecs
    /\ enabling_components = NoSpecs
    /\ runtime_features = NoSpecs
    /\ results = NoSpecs
    /\ factories = {}
    /\ invocations = <<>>
    /\ ImportIdle
    /\ MarshalIdle
    /\ CliIdle

NextLoader == LoadDefinitions \/ BuildGraph

SpecLoader == InitLoader /\ [][NextLoader]_vars

-----------------------------------------------------------------------------
(* Manifests of the registry builder's runs *)

\* what Parser::parse reads from the bytes behind a component's uri
WasmComponent(readable, namespace, package, imports, exports) ==
    [readable |-> readable, namespace |-> namespace, package |-> package,
     imports |-> imports, exports |-> exports, functions |-> NoSpecs]

\* an exported function and what the guest does when it is called: `calls` calls of
\* the counter extension's increment, then it returns `vals`, or the last count
Function(calls, counted, vals, schema) ==
    [calls |-> calls, counted |-> counted, vals |-> vals, schema |-> schema]

WithFunctions(bytes, functions) == [bytes EXCEPT !.functions = functions]

Metadata(namespace, package) == [namespace |-> namespace, package |-> package]

NoMetadata == Metadata(NoOption, NoOption)

Greeter == Interface("modulewise:test/greeter", Version(0, 1, 0))
Poll == Wasi("wasi:io/poll")

ProviderMetadata == {NoMetadata, Metadata(Some("acme"), Some("acme:one"))}

ConsumerMetadata ==
    ProviderMetadata \cup {Metadata(Some("acme"), Some("acme:two")),
                           Metadata(Some("other"), Some("other:one"))}

Manifest(features, components, bytes) ==
    [features |-> features, components |-> components,
     wasm |-> [n \in Range(ComponentNames) |-> bytes[CHOOSE i \in DOMAIN ComponentNames :
                                                           ComponentNames[i] = n]]]

\* alpha provides under every scope and metadata; beta consumes alpha, infra or both
ScopeManifests ==
    {Manifest(<<RuntimeFeatureDefinition("infra", "wasmtime:io", fs)>>,
              <<ComponentDefinition("alpha", s, <<>>, <<>>, 0, xa),
                ComponentDefinition("beta", default_enables, eb, <<>>, 0, xb),
                ComponentDefinition("gamma", default_enables, eg, <<>>, 0, xg)>>,
              <<WasmComponent(TRUE, ma.namespace, ma.package, {}, {Greeter}),
                WasmComponent(TRUE, mb.namespace, mb.package, ib, {}),
                WasmComponent(TRUE, NoOption, NoOption, {}, {})>>) :
        fs \in {"none", "unexposed", "exposed", "any"}, s \in EnableScopes,
        xa \in BOOLEAN, xb \in BOOLEAN, xg \in BOOLEAN,
        eb \in {<<"alpha">>, <<"infra">>, <<"alpha", "infra">>},
        eg \in {<<>>, <<"beta">>},
        ma \in ProviderMetadata, mb \in ConsumerMetadata, ib \in {{}, {Greeter}}}

\* bytes that may be unreadable and imports that may stay unsatisfied
ImportManifests ==
    {Manifest(<<RuntimeFeatureDefinition("infra", "wasmtime:io", "any")>>,
              <<ComponentDefinition("alpha", sa, ea, <<>>, 0, xa),
                ComponentDefinition("beta", "any", eb, <<>>, 0, xb),
                ComponentDefinition("gamma", default_enables, eg, <<>>, 0, xg)>>,
              <<WasmComponent(ra, NoOption, NoOption, ia, {Greeter}),
                WasmComponent(rb, NoOption, NoOption, ib, {}),
                WasmComponent(TRUE, NoOption, NoOption, ig, {})>>) :
        sa \in {"none", "any"}, xa \in BOOLEAN, xb \in BOOLEAN, xg \in BOOLEAN,
        ea \in {<<>>, <<"infra">>}, eb \in {<<>>, <<"alpha">>, <<"infra">>},
        eg \in {<<>>, <<"alpha">>, <<"beta">>, <<"alpha", "beta">>},
        ra \in BOOLEAN, rb \in BOOLEAN,
        ia \in {{}, {Poll}}, ib \in {{}, {Greeter}, {Poll}}, ig \in {{}, {Greeter}, {Poll}}}

\* chains of providers: infra under a scope, alpha and beta that may expect it and
\* enable their consumers, gamma on top
ChainManifests ==
    {Manifest(<<RuntimeFeatureDefinition("infra", "wasmtime:some-infra", fs)>>,
              <<ComponentDefinition("alpha", sa, ea, <<>>, 0, xa),
                ComponentDefinition("beta", sb, eb, <<>>, 0, xb),
                ComponentDefinition("gamma", default_enables, eg, <<>>, 0, xg)>>,
              <<WasmComponent(TRUE, NoOption, NoOption, {}, {}),
                WasmComponent(TRUE, NoOption, NoOption, {}, {}),
                WasmComponent(TRUE, NoOption, NoOption, {}, {})>>) :
        fs \in {"unexposed", "exposed", "any"},
        sa \in {"exposed", "any"}, sb \in {"exposed", "any"},
        xa \in BOOLEAN, xb \in BOOLEAN, xg \in BOOLEAN,
        ea \in {<<>>, <<"infra">>}, eb \in {<<"alpha">>, <<"infra">>, <<"alpha", "infra">>},
        eg \in {<<"beta">>, <<"alpha", "beta">>, <<"beta", "infra">>}}

InitRegistry ==
    /\ \E m \in ScopeManifests \cup ImportManifests \cup ChainManifests :
          /\ runtime_feature_definitions = m.features
          /\ component_definitions = m.components
          /\ wasm = m.wasm
    /\ build_definitions(runtime_feature_definitions, component_definitions)
    /\ pc = "definitions"
    /\ graph = {}
    /\ redirects = {}
    /\ error = NoError
    /\ build_order = <<>>
    /\ cursor = 0
    /\ built_components = NoSpecs
    /\ exposed_components = NoSpecs
    /\ enabling_components = NoSpecs
    /\ runtime_features = NoSpecs
    /\ results = NoSpecs
    /\ definition_files =
          DefinitionFiles(runtime_feature_definitions, component_definitions, <<>>)
    /\ factories = {}
    /\ invocations = <<>>
    /\ ImportIdle
    /\ MarshalIdle
    /\ CliIdle

NextRegistry == BuildGraph \/ BeginRegistries \/ ProcessComponent \/ FinishRegistries

SpecRegistry == InitRegistry /\ [][NextRegistry]_vars

-----------------------------------------------------------------------------
(* Manifests with host features, and the factories the embedding registers *)

\* two host features, the first with or without config, and components that may
\* depend on one of them
HostManifests ==
    {Manifest(<<WithConfig(RuntimeFeatureDefinition("greeter", "host:greeter", "any"), cg),
                WithConfig(RuntimeFeatureDefinition("counter", "host:counter", "any"), cc)>>,
              <<ComponentDefinition("alpha", "any", ea, <<>>, 0, xa),
                ComponentDefinition("beta", default_enables, eb, <<>>, 0, xb),
                ComponentDefinition("gamma", default_enables, <<>>, <<>>, 0, TRUE)>>,
              <<WasmComponent(TRUE, NoOption, NoOption, {}, {}),
                WasmComponent(TRUE, NoOption, NoOption, {}, {}),
                WasmComponent(TRUE, NoOption, NoOption, {}, {})>>) :
        cg \in {EmptyConfig, {"factor"}}, cc \in {EmptyConfig, {"factor"}},
        ea \in {<<>>, <<"greeter">>, <<"counter">>}, xa \in BOOLEAN,
        eb \in {<<>>, <<"alpha">>}, xb \in BOOLEAN}

InitHost ==
    /\ \E m \in HostManifests :
          /\ runtime_feature_definitions = m.features
          /\ component_definitions = m.components
          /\ wasm = m.wasm
    /\ build_definitions(runtime_feature_definitions, component_definitions)
    /\ factories \in SUBSET {"greeter", "counter"}
    /\ pc = "definitions"
    /\ graph = {}
    /\ redirects = {}
    /\ error = NoError
    /\ build_order = <<>>
    /\ cursor = 0
    /\ built_components = NoSpecs
    /\ exposed_components = NoSpecs
    /\ enabling_components = NoSpecs
    /\ runtime_features = NoSpecs
    /\ results = NoSpecs
    /\ definition_files =
          DefinitionFiles(runtime_feature_definitions, component_definitions, <<>>)
    /\ invocations = <<>>
    /\ ImportIdle
    /\ MarshalIdle
    /\ CliIdle

SpecHost == InitHost /\ [][NextRegistry]_vars

-----------------------------------------------------------------------------
(* Manifests of the Runtime's runs *)

Counter == Interface("modulewise:test-host/counter", <<>>)

HostFeatures ==
    <<RuntimeFeatureDefinition("counter", "host:counter", "any"),
      RuntimeFeatureDefinition("first", "host:first", "any"),
      RuntimeFeatureDefinition("second", "host:second", "any")>>

Plain == Function(0, FALSE, <<>>, NoSchema)

\* what a guest function may return
ReturnChoices ==
    {<<>>, <<U32(7)>>, <<ResultOk(Some(U32(1)))>>, <<ResultOk(NoOption)>>,
     <<ResultErr(Some(String("boom")))>>, <<ResultErr(NoOption)>>,
     <<OptionVal(Some(ResultErr(NoOption)))>>, <<OptionVal(NoOption)>>,
     <<Tuple(<<ResultErr(Some(U32(1))), Bool(TRUE)>>)>>,
     <<ResultErr(NoOption), U32(1)>>, <<ResultOk(Some(ResultErr(NoOption)))>>}

\* alpha, beta (on alpha) and gamma (on beta) with host extensions that keep state
StateManifests ==
    {Manifest(HostFeatures,
              <<ComponentDefinition("alpha", "any", ea, <<>>, 0, xa),
                ComponentDefinition("beta", "any", eb, <<>>, 0, TRUE),
                ComponentDefinition("gamma", default_enables, <<"beta">>, <<>>, 0, xg)>>,
              <<WithFunctions(WasmComponent(TRUE, NoOption, NoOption,
                                            IF "counter" \in Range(ea) THEN {Counter} ELSE {},
                                            {}),
                              "run" :> Function(IF "counter" \in Range(ea) THEN ca ELSE 0,
                                                "counter" \in Range(ea), <<>>, NoSchema)),
                WithFunctions(WasmComponent(TRUE, NoOption, NoOption, {}, {}), "run" :> Plain),
                WithFunctions(WasmComponent(rg, NoOption, NoOption, {}, {}),
                              "run" :> Plain)>>) :
        ea \in {<<"counter">>, <<"first">>, <<"first", "second">>, <<"counter", "first">>},
        xa \in BOOLEAN, ca \in 1..2,
        eb \in {<<"alpha">>, <<"second">>, <<"alpha", "second">>},
        xg \in BOOLEAN, rg \in BOOLEAN}

\* one exposed guest per shape of return value
ReturnManifests ==
    {Manifest(HostFeatures,
              <<ComponentDefinition("alpha", default_enables, <<>>, <<>>, 0, TRUE),
                ComponentDefinition("beta", default_enables, <<>>, <<>>, 0, FALSE),
                ComponentDefinition("gamma", default_enables, <<>>, <<>>, 0, TRUE)>>,
              <<WithFunctions(WasmComponent(TRUE, NoOption, NoOption, {}, {}),
                              "run" :> Function(0, FALSE, vals, schema)),
                WithFunctions(WasmComponent(TRUE, NoOption, NoOption, {}, {}), "run" :> Plain),
                WithFunctions(WasmComponent(FALSE, NoOption, NoOption, {}, {}),
                              "run" :> Plain)>>) :
        vals \in ReturnChoices,
        schema \in {NoSchema, ObjectSchema(<<"left", "right">>), ObjectSchema(<<"only">>)}}

InitRuntime ==
    /\ \E m \in StateManifests \cup ReturnManifests :
          /\ runtime_feature_definitions = m.features
          /\ component_definitions = m.components
          /\ wasm = m.wasm
    /\ build_definitions(runtime_feature_definitions, component_definitions)
    /\ pc = "definitions"
    /\ graph = {}
    /\ redirects = {}
    /\ error = NoError
    /\ build_order = <<>>
    /\ cursor = 0
    /\ built_components = NoSpecs
    /\ exposed_components = NoSpecs
    /\ enabling_components = NoSpecs
    /\ runtime_features = NoSpecs
    /\ results = NoSpecs
    /\ definition_files =
          DefinitionFiles(runtime_feature_definitions, component_definitions, <<>>)
    /\ factories = DOMAIN HostExtensionTypes
    /\ invocations = <<>>
    /\ ImportIdle
    /\ MarshalIdle
    /\ CliIdle

NextRuntime ==
    \/ BuildGraph \/ BeginRegistries \/ ProcessComponent \/ FinishRegistries
    \/ StartInvoke \/ Instantiate \/ HostCall \/ Return

SpecRuntime == InitRuntime /\ [][NextRuntime]_vars

-----------------------------------------------------------------------------
(* Questions put to is_import_satisfied *)

GreeterName == "modulewise:test/greeter"
PollName == "wasi:io/poll"

\* 2^32 - 1 and 2^32 as texts
MaxNumeral == u32_MAX
OverflowNumeral == <<"4", "2", "9", "4", "9", "6", "7", "2", "9", "6">>

Dotted(major, minor, patch) == major \o <<".">> \o minor \o <<".">> \o patch

\* version texts a component may ask for
AskedVersions ==
    {Dotted(major, minor, patch) :
        major \in {<<"1">>, <<"0", "1">>, <<"x">>},
        minor \in {<<"2">>, <<"3">>},
        patch \in {<<"0">>, <<"5">>, <<"+", "5">>, <<>>, MaxNumeral, OverflowNumeral}}
    \cup {<<>>, <<"1", ".", "2">>, <<"1", ".", "2", ".", "5", ".", "0">>,
          <<"1", ".", "2", ".", "-", "5">>}

\* version texts a runtime feature may provide
ProvidedVersions ==
    {Dotted(major, <<"2">>, patch) :
        major \in {<<"1">>, <<"0", "1">>},
        patch \in {<<"0">>, <<"5">>, <<"0", "7">>, MaxNumeral, OverflowNumeral}}
    \cup {Dotted(<<"1">>, <<"3">>, <<"5">>), Dotted(<<"2">>, <<"2">>, <<"5">>),
          Dotted(<<"+", "1">>, <<"2">>, <<"9">>), Dotted(<<"x">>, <<"2">>, <<"5">>),
          <<>>, <<"1", ".", "2">>}

\* an id whose name itself holds an '@'
Nested(interface) == <<"scope", "@">> \o interface

AskedImports ==
    {Interface(GreeterName, v) : v \in AskedVersions}
    \cup {Interface(PollName, v) : v \in {Version(1, 2, 5), <<>>}}
    \cup {Nested(Interface(GreeterName, v)) : v \in {Version(1, 2, 5), <<>>}}

ProvidedInterfaces ==
    {Interface(GreeterName, v) : v \in ProvidedVersions}
    \cup {Interface(PollName, v) : v \in {Version(1, 2, 5), Version(1, 2, 7)}}
    \cup {Nested(Interface(GreeterName, Version(1, 2, 7)))}

ExtraInterfaces ==
    {Interface(GreeterName, v) :
        v \in {Version(1, 2, 0), Version(1, 2, 5), Version(1, 3, 5), <<>>,
               Dotted(<<"0", "1">>, <<"2">>, <<"0", "7">>)}}
    \cup {Interface(PollName, Version(1, 2, 5))}

\* two registered features, each with one interface or none
ImportRegistries ==
    {("infra" :> RuntimeFeature("wasmtime:some-infra", "any", a, NoOption)) @@
     ("extra" :> RuntimeFeature("wasmtime:some-extra", "any", b, NoOption)) :
        a \in {{}} \cup {{i} : i \in ProvidedInterfaces},
        b \in {{}} \cup {{i} : i \in ExtraInterfaces}}

InitImports ==
    /\ runtime_features \in ImportRegistries
    /\ asked \in AskedImports
    /\ provided \in {{}, {"infra"}, {"ghost"}}
    /\ satisfied = NoOption
    /\ runtime_feature_definitions = <<>>
    /\ component_definitions = <<>>
    /\ wasm = NoWasm
    /\ pc = "imports"
    /\ graph = {}
    /\ redirects = {}
    /\ error = NoError
    /\ build_order = <<>>
    /\ cursor = 0
    /\ built_components = NoSpecs
    /\ exposed_components = NoSpecs
    /\ enabling_components = NoSpecs
    /\ results = NoSpecs
    /\ definition_files = DefinitionFiles(<<>>, <<>>, <<>>)
    /\ factories = {}
    /\ invocations = <<>>
    /\ MarshalIdle
    /\ CliIdle

\* process_component's filter: is the import satisfied by the accumulated features
CheckImport ==
    /\ pc = "imports"
    /\ satisfied = NoOption
    /\ satisfied' = Some(is_import_satisfied(asked,
                             collect_runtime_interfaces(runtime_features, provided)))
    /\ UNCHANGED <<asked, provided>>
    /\ UNCHANGED <<component_definitions, runtime_feature_definitions, wasm, pc, graph,
                   redirects, error, build_order, cursor, built_components,
                   exposed_components, enabling_components, runtime_features, results>>
    /\ UNCHANGED <<inputVars, marshalVars, cliVars, runtimeVars>>

\* one more feature in the accumulated set, and the same question again
AddRuntimeFeature ==
    /\ pc = "imports"
    /\ satisfied # NoOption
    /\ \E f \in (DOMAIN runtime_features \cup {"ghost"}) \ provided :
          /\ provided' = provided \cup {f}
          /\ satisfied' = Some(is_import_satisfied(asked,
                                   collect_runtime_interfaces(runtime_features, provided')))
    /\ UNCHANGED asked
    /\ UNCHANGED <<component_definitions, runtime_feature_definitions, wasm, pc, graph,
                   redirects, error, build_order, cursor, built_components,
                   exposed_components, enabling_components, runtime_features, results>>
    /\ UNCHANGED <<inputVars, marshalVars, cliVars, runtimeVars>>

NextImports == CheckImport \/ AddRuntimeFeature

SpecImports == InitImports /\ [][NextImports]_vars

-----------------------------------------------------------------------------
(* Manifests with two interceptors and two consumers *)

\* the scopes the graph builder and the registry both decide from `exposed` alone
ExposureScopes == {"none", "any", "exposed", "unexposed"}

\* what the two interceptors may intercept and the two consumers may expect
SharedProviders == {"infra", "gamma"}

SharedInterceptors(n) ==
    {ComponentDefinition(n, s, <<>>, <<t>>, p, x) :
        s \in ExposureScopes, t \in SharedProviders, p \in 0..MaxPrecedence, x \in BOOLEAN}

SharedConsumers(n, expects) ==
    {ComponentDefinition(n, s, <<e>>, <<>>, 0, x) :
        s \in {"none", "any"}, e \in expects, x \in BOOLEAN}

InterceptorManifests ==
    {<<a, b, c, d>> : a \in SharedInterceptors("alpha"), b \in SharedInterceptors("beta"),
                      c \in SharedConsumers("gamma", {"infra"}),
                      d \in SharedConsumers("delta", SharedProviders)}

InitInterceptors ==
    /\ runtime_feature_definitions =
          <<RuntimeFeatureDefinition("infra", "wasmtime:some-infra", "any")>>
    /\ component_definitions \in InterceptorManifests
    /\ build_definitions(runtime_feature_definitions, component_definitions)
    /\ wasm = NoWasm
    /\ pc = "definitions"
    /\ graph = {}
    /\ redirects = {}
    /\ error = NoError
    /\ build_order = <<>>
    /\ cursor = 0
    /\ built_components = NoSpecs
    /\ exposed_components = NoSpecs
    /\ enabling_components = NoSpecs
    /\ runtime_features = NoSpecs
    /\ results = NoSpecs
    /\ definition_files =
          DefinitionFiles(runtime_feature_definitions, component_definitions, <<>>)
    /\ factories = {}
    /\ invocations = <<>>
    /\ ImportIdle
    /\ MarshalIdle
    /\ CliIdle

SpecInterceptors == InitInterceptors /\ [][BuildGraph]_vars

-----------------------------------------------------------------------------
(* Manifests whose chains reach the registry builder *)

\* two interceptors of infra and the consumer gamma; every component's bytes are readable
\* and import nothing
RedirectedManifests ==
    {Manifest(<<RuntimeFeatureDefinition("infra", "wasmtime:some-infra", "any")>>,
              <<ComponentDefinition("alpha", sa, <<>>, <<"infra">>, pa, xa),
                ComponentDefinition("beta", sb, <<>>, <<"infra">>, pb, xb),
                ComponentDefinition("gamma", default_enables, <<"infra">>, <<>>, 0, xg)>>,
              <<WasmComponent(TRUE, NoOption, NoOption, {}, {}),
                WasmComponent(TRUE, NoOption, NoOption, {}, {}),
                WasmComponent(TRUE, NoOption, NoOption, {}, {})>>) :
        sa \in ExposureScopes, sb \in ExposureScopes,
        pa \in 0..MaxPrecedence, pb \in 0..MaxPrecedence,
        xa \in BOOLEAN, xb \in BOOLEAN, xg \in BOOLEAN}

InitRedirected ==
    /\ \E m \in RedirectedManifests :
          /\ runtime_feature_definitions = m.features
          /\ component_definitions = m.components
          /\ wasm = m.wasm
    /\ build_definitions(runtime_feature_definitions, component_definitions)
    /\ pc = "definitions"
    /\ graph = {}
    /\ redirects = {}
    /\ error = NoError
    /\ build_order = <<>>
    /\ cursor = 0
    /\ built_components = NoSpecs
    /\ exposed_components = NoSpecs
    /\ enabling_components = NoSpecs
    /\ runtime_features = NoSpecs
    /\ results = NoSpecs
    /\ definition_files =
          DefinitionFiles(runtime_feature_definitions, component_definitions, <<>>)
    /\ factories = {}
    /\ invocations = <<>>
    /\ ImportIdle
    /\ MarshalIdle
    /\ CliIdle

SpecRedirected == InitRedirected /\ [][NextRegistry]_vars

-----------------------------------------------------------------------------
(* Manifests whose components import the config store *)

ConfigStore == Interface("wasi:config/store", Version(0, 2, 0))

\* alpha exports the greeter and may import the config store and the poll interface;
\* beta expects alpha and imports the greeter, next to the config store or the poll
\* interface; gamma may expect beta; infra provides the wasmtime:io interfaces
ConfigManifests ==
    {Manifest(<<RuntimeFeatureDefinition("infra", "wasmtime:io", fs)>>,
              <<ComponentDefinition("alpha", sa, ea, <<>>, 0, xa),
                ComponentDefinition("beta", sb, eb, <<>>, 0, xb),
                ComponentDefinition("gamma", default_enables, eg, <<>>, 0, xg)>>,
              <<WasmComponent(TRUE, NoOption, NoOption, ia, {Greeter}),
                WasmComponent(TRUE, NoOption, NoOption, ib, {}),
                WasmComponent(TRUE, NoOption, NoOption, {}, {})>>) :
        fs \in {"none", "any"}, sa \in {"none", "any"}, sb \in {"none", "any"},
        xa \in BOOLEAN, xb \in BOOLEAN, xg \in BOOLEAN,
        ea \in {<<>>, <<"infra">>}, eb \in {<<"alpha">>, <<"alpha", "infra">>},
        eg \in {<<>>, <<"beta">>},
        ia \in {{ConfigStore}, {Poll}, {ConfigStore, Poll}},
        ib \in {{Greeter}, {Greeter, ConfigStore}, {Greeter, Poll}}}

InitConfig ==
    /\ \E m \in ConfigManifests :
          /\ runtime_feature_definitions = m.features
          /\ component_definitions = m.components
          /\ wasm = m.wasm
    /\ build_definitions(runtime_feature_definitions, component_definitions)
    /\ pc = "definitions"
    /\ graph = {}
    /\ redirects = {}
    /\ error = NoError
    /\ build_order = <<>>
    /\ cursor = 0
    /\ built_components = NoSpecs
    /\ exposed_components = NoSpecs
    /\ enabling_components = NoSpecs
    /\ runtime_features = NoSpecs
    /\ results = NoSpecs
    /\ definition_files =
          DefinitionFiles(runtime_feature_definitions, component_definitions, <<>>)
    /\ factories = {}
    /\ invocations = <<>>
    /\ ImportIdle
    /\ MarshalIdle
    /\ CliIdle

SpecConfig == InitConfig /\ [][NextRegistry]_vars

-----------------------------------------------------------------------------
(* Values put to the marshaller *)

\* Invoker::invoke converts each JSON argument to the Val of its parameter type
JsonToVal ==
    /\ pc = "marshal"
    /\ json_value # NoOption
    /\ inbound = NoOption
    /\ LET converted == json_to_val(Unwrap(json_value), Unwrap(val_type))
       IN /\ inbound' = Some(converted)
          /\ val' = IF converted.ok THEN Some(converted.val) ELSE NoOption
    /\ UNCHANGED <<json_value, val_type, outbound>>
    /\ UNCHANGED <<component_definitions, runtime_feature_definitions, wasm, pc, graph,
                   redirects, error, build_order, cursor, built_components,
                   exposed_components, enabling_components, runtime_features, results>>
    /\ UNCHANGED <<inputVars, cliVars, runtimeVars, importVars>>

\* Invoker::invoke converts a Val in hand to JSON
ValToJson ==
    /\ pc = "marshal"
    /\ val # NoOption
    /\ outbound = NoOption
    /\ outbound' = Some(val_to_json(Unwrap(val)))
    /\ UNCHANGED <<json_value, val_type, inbound, val>>
    /\ UNCHANGED <<component_definitions, runtime_feature_definitions, wasm, pc, graph,
                   redirects, error, build_order, cursor, built_components,
                   exposed_components, enabling_components, runtime_features, results>>
    /\ UNCHANGED <<inputVars, cliVars, runtimeVars, importVars>>

\* the numbers given: around the ends of the 8- and 16-bit ranges
MarshalNumbers ==
    {-32769, -32768, -129, -128, -1, 0, 1, 127, 128, 255, 256, 32767, 32768, 65535, 65536}

Obj1(k, v) == JsonObject([key \in {k} |-> v])
Obj2(k1, v1, k2, v2) == JsonObject([key \in {k1, k2} |-> IF key = k1 THEN v1 ELSE v2])

JsonInputs ==
    {JsonNull, JsonBool(TRUE), JsonBool(FALSE), JsonFloat(15), JsonFloat(10)}
    \cup {JsonNumber(n) : n \in MarshalNumbers}
    \cup {JsonString(<<>>), JsonString(<<"a">>), JsonString(<<"a", "b">>),
          JsonString(<<"red">>)}
    \cup {JsonArray(<<>>), JsonArray(<<JsonNumber(1)>>),
          JsonArray(<<JsonNumber(1), JsonNumber(256)>>),
          JsonArray(<<JsonBool(TRUE), JsonString(<<"a">>)>>),
          JsonArray(<<JsonBool(TRUE)>>), JsonArray(<<JsonNull, JsonBool(FALSE)>>),
          JsonArray(<<JsonString(<<"r">>)>>), JsonArray(<<JsonString(<<"red">>)>>)}
    \cup {Obj1("id", JsonNumber(1)), Obj1("id", JsonNumber(256)),
          Obj1("tag", JsonString(<<"a">>)),
          Obj2("id", JsonNumber(1), "tag", JsonString(<<"a">>)),
          Obj2("id", JsonNumber(1), "tag", JsonNull),
          Obj2("id", JsonNumber(1), "extra", JsonBool(TRUE)),
          Obj1("ok", JsonBool(TRUE)), Obj1("error", JsonString(<<"a">>)),
          Obj1("type", JsonString(<<"point">>)),
          Obj2("type", JsonString(<<"circle">>), "value", JsonNumber(1))}

Shape == VariantType(<<Case("circle", Some(PrimType("U8"))), Case("point", NoOption)>>)
Colour == EnumType(<<"red", "green">>)
Tagged == RecordType(<<Field("id", PrimType("U8")),
                       Field("tag", OptionType(PrimType("String")))>>)

TypeInputs ==
    {PrimType(t) : t \in IntTypes \cup {"Bool", "String", "Char"}}
    \cup {ListType(PrimType("U8")), ListType(OptionType(PrimType("Bool"))),
          ListType(Colour),
          TupleType(<<PrimType("Bool"), PrimType("Char")>>),
          TupleType(<<PrimType("U8"), PrimType("U16")>>),
          Tagged,
          OptionType(PrimType("Bool")), OptionType(PrimType("S8")),
          OptionType(OptionType(PrimType("Bool"))), OptionType(Tagged),
          Colour, FlagsType(<<"r", "w">>), Shape,
          ResultType(Some(PrimType("Bool")), Some(PrimType("String")))}

Rec1(k, v) == Record(<<[name |-> k, val |-> v]>>)
Rec2(k1, v1, k2, v2) == Record(<<[name |-> k1, val |-> v1], [name |-> k2, val |-> v2]>>)

\* what guests return: variants with every kind of payload, and the other outbound-only values
OutboundVals ==
    {Variant("point", NoOption),
     Variant("circle", Some(IntVal("U8", 1))),
     Variant("label", Some(String(<<"a">>))),
     Variant("maybe", Some(OptionVal(NoOption))),
     Variant("maybe", Some(OptionVal(Some(Bool(TRUE))))),
     Variant("pair", Some(Tuple(<<Bool(TRUE), Char("a")>>))),
     Variant("many", Some(List(<<IntVal("U8", 1)>>))),
     Variant("box", Some(Rec1("width", IntVal("U8", 1)))),
     Variant("tagged", Some(Rec1("type", String(<<"a">>)))),
     Variant("valued", Some(Rec1("value", IntVal("U8", 2)))),
     Variant("both", Some(Rec2("type", String(<<"a">>), "value", Bool(FALSE)))),
     Variant("outer", Some(Variant("inner", NoOption))),
     Variant("outcome", Some(ResultOk(Some(Bool(TRUE))))),
     Variant("colour", Some(Enum("red"))),
     Variant("modes", Some(Flags(<<"r", "w">>))),
     Enum("red"), Flags(<<"r">>), Flags(<<>>),
     ResultOk(Some(Bool(TRUE))), ResultOk(NoOption)}

InitMarshal ==
    /\ \/ /\ json_value \in {Some(j) : j \in JsonInputs}
          /\ val_type \in {Some(t) : t \in TypeInputs}
          /\ val = NoOption
       \/ /\ json_value = NoOption
          /\ val_type = NoOption
          /\ val \in {Some(v) : v \in OutboundVals}
    /\ inbound = NoOption
    /\ outbound = NoOption
    /\ runtime_feature_definitions = <<>>
    /\ component_definitions = <<>>
    /\ wasm = NoWasm
    /\ pc = "marshal"
    /\ graph = {}
    /\ redirects = {}
    /\ error = NoError
    /\ build_order = <<>>
    /\ cursor = 0
    /\ built_components = NoSpecs
    /\ exposed_components = NoSpecs
    /\ enabling_components = NoSpecs
    /\ runtime_features = NoSpecs
    /\ results = NoSpecs
    /\ definition_files = DefinitionFiles(<<>>, <<>>, <<>>)
    /\ factories = {}
    /\ invocations = <<>>
    /\ ImportIdle
    /\ CliIdle

NextMarshal == JsonToVal \/ ValToJson

SpecMarshal == InitMarshal /\ [][NextMarshal]_vars

-----------------------------------------------------------------------------
(* Commands typed at the prompt *)

\* the argument texts, as parse_quoted_args leaves them
ArgTexts ==
    {<<"4", "2">>, <<"-", "1">>, <<"1", ".", "5">>, <<"0", "1">>,
     <<"true">>, <<"null">>, <<"hello">>,
     <<Quote, "hello", Quote>>, <<Quote, "4", "2", Quote>>,
     <<Space, "7", Space>>,
     <<"[", "1", ",", Space, "2", "]">>, <<"[", "1">>, <<"[", "]">>,
     <<"{", Quote, "a", Quote, ":", "1", "}">>,
     <<"{", Quote, "a", Quote, ":", Space, "true", ",", Quote, "b", Quote, ":", "null", "}">>}

CliParams ==
    {Param("text", Some("string"), FALSE), Param("count", Some("integer"), FALSE),
     Param("note", Some("string"), TRUE), Param("extra", NoOption, TRUE)}

SequencesUpTo(S, n) == UNION {[1..k -> S] : k \in 0..n}

InitCli ==
    /\ cli_args \in SequencesUpTo(ArgTexts, MaxArgs)
    /\ cli_params \in SequencesUpTo(CliParams, MaxArgs)
    /\ final_args = NoOption
    /\ runtime_feature_definitions = <<>>
    /\ component_definitions = <<>>
    /\ wasm = NoWasm
    /\ pc = "cli"
    /\ graph = {}
    /\ redirects = {}
    /\ error = NoError
    /\ build_order = <<>>
    /\ cursor = 0
    /\ built_components = NoSpecs
    /\ exposed_components = NoSpecs
    /\ enabling_components = NoSpecs
    /\ runtime_features = NoSpecs
    /\ results = NoSpecs
    /\ definition_files = DefinitionFiles(<<>>, <<>>, <<>>)
    /\ factories = {}
    /\ invocations = <<>>
    /\ ImportIdle
    /\ MarshalIdle

SpecCli == InitCli /\ [][HandleInvoke]_vars

-----------------------------------------------------------------------------
(* Vocabulary of the properties *)

Nodes == NodeNames(component_definitions, runtime_feature_definitions)

Components == DOMAIN component_definitions

\* ComponentGraph::build has returned Ok
GraphBuilt == pc \in {"graph", "walk", "done", "fatal"}

HasEdge(s, t) == \E e \in graph : e.source = s /\ e.target = t

EdgeWeight(s, t) == (CHOOSE e \in graph : e.source = s /\ e.target = t).weight

\* i declares a dependency on the name p, through expects or intercepts
DependsOn(i, p) ==
    p \in Range(component_definitions[i].expects) \cup Range(component_definitions[i].intercepts)

\* the enables scopes as the graph builder reads them for a consumer
ScopeIncludes(scope, consumerExposed) ==
    \/ scope \in {"any", "package", "namespace"}
    \/ scope = "exposed" /\ consumerExposed
    \/ scope = "unexposed" /\ ~consumerExposed

\* the interceptors of p that are enabled for the consumer c
EnabledFor(p, c) ==
    {i \in Components :
        /\ p \in Range(component_definitions[i].intercepts)
        /\ ScopeIncludes(component_definitions[i].enables, component_definitions[c].exposed)}

\* ascending precedence, ties in definition-list order
Before(i, j) ==
    \/ component_definitions[i].precedence < component_definitions[j].precedence
    \/ component_definitions[i].precedence = component_definitions[j].precedence /\ i < j

Rank(S, i) == Cardinality({k \in S : Before(k, i)})

NameOf(i) == component_definitions[i].name

\* p is a node and c is a consumer of p whose edge redirection reroutes
Chained(p, c) ==
    /\ p \in Nodes
    /\ DependsOn(c, p)
    /\ EnabledFor(p, c) # {}
    /\ c \notin EnabledFor(p, c)

\* an order of the nodes in which every edge points forward exists
HasTopologicalOrder(nodes, es) ==
    \A S \in SUBSET nodes \ {{}} :
        \E n \in S : \A e \in es : e.target = n => e.source \notin S

\* C1: build returns Ok only for a graph that has a topological order, and otherwise
\* the error names a node of a graph that has none
C1_OkOnlyIfAcyclic ==
    /\ GraphBuilt => HasTopologicalOrder(Nodes, graph)
    /\ pc = "rejected" =>
          /\ error.kind = "cycle"
          /\ error.node \in Nodes
          /\ ~HasTopologicalOrder(Nodes, RedirectedEdges(component_definitions,
                                                          runtime_feature_definitions))

\* two components expect each other and build has rejected them
C1_Witness ==
    /\ pc = "rejected"
    /\ \E i, j \in Components :
          /\ i # j
          /\ NameOf(j) \in Range(component_definitions[i].expects)
          /\ NameOf(i) \in Range(component_definitions[j].expects)

\* C2: the enabled interceptors of p are chained between p and the consumer c in
\* ascending precedence, ties in definition order
C2_InterceptorOrdering ==
    GraphBuilt =>
       \A p \in Nodes : \A c \in Components :
          Chained(p, c) =>
             LET S == EnabledFor(p, c)
             IN \A i \in S :
                   /\ Rank(S, i) = 0 => HasEdge(p, NameOf(i))
                   /\ Rank(S, i) = Cardinality(S) - 1 => HasEdge(NameOf(i), NameOf(c))
                   /\ \A j \in S : Rank(S, j) = Rank(S, i) + 1 => HasEdge(NameOf(i), NameOf(j))

\* a consumer is chained behind two interceptors of equal precedence
C2_Witness ==
    /\ GraphBuilt
    /\ \E p \in Nodes : \E c \in Components :
          /\ Chained(p, c)
          /\ \E i, j \in EnabledFor(p, c) :
                /\ i < j
                /\ component_definitions[i].precedence = component_definitions[j].precedence
                /\ HasEdge(NameOf(i), NameOf(j))

\* the statement of C3 as written: the strictly lowest precedence is next to the
\* consumer and the strictly highest is next to the provider
C3_LowestIsOuter ==
    GraphBuilt =>
       \A p \in Nodes : \A c \in Components :
          Chained(p, c) =>
             LET S == EnabledFor(p, c)
             IN \A i \in S :
                   /\ (\A k \in S \ {i} : Before(i, k)
                                          /\ component_definitions[i].precedence
                                             # component_definitions[k].precedence)
                         => HasEdge(NameOf(i), NameOf(c))
                   /\ (\A k \in S \ {i} : Before(k, i)
                                          /\ component_definitions[i].precedence
                                             # component_definitions[k].precedence)
                         => HasEdge(p, NameOf(i))

\* C3 (amended): among the interceptors chained for c, the one with the strictly lowest
\* precedence value has the edge from the provider p and the one with the strictly
\* highest value has the edge into the consumer c
C3_LowestIsInner ==
    GraphBuilt =>
       \A p \in Nodes : \A c \in Components :
          Chained(p, c) =>
             LET S == EnabledFor(p, c)
             IN \A i \in S :
                   /\ (\A k \in S \ {i} : component_definitions[i].precedence
                                          < component_definitions[k].precedence)
                         => HasEdge(p, NameOf(i))
                   /\ (\A k \in S \ {i} : component_definitions[i].precedence
                                          > component_definitions[k].precedence)
                         => HasEdge(NameOf(i), NameOf(c))

\* two interceptors of different precedence are chained: provider -> lower -> higher -> consumer
C3_Witness ==
    /\ GraphBuilt
    /\ \E p \in Nodes : \E c \in Components :
          /\ Chained(p, c)
          /\ \E i, j \in EnabledFor(p, c) :
                /\ component_definitions[i].precedence < component_definitions[j].precedence
                /\ HasEdge(p, NameOf(i))
                /\ HasEdge(NameOf(i), NameOf(j))
                /\ HasEdge(NameOf(j), NameOf(c))
                /\ ~HasEdge(NameOf(i), NameOf(c))

\* the interceptor that redirection puts next to the consumer c of p
LastFor(p, c) ==
    CHOOSE i \in EnabledFor(p, c) : Rank(EnabledFor(p, c), i) = Cardinality(EnabledFor(p, c)) - 1

\* the statement of C4 as written: no edge p -> c is left, and the last interceptor
\* reaches c by a Dependency edge
C4_NoDirectEdge ==
    GraphBuilt =>
       \A p \in Nodes : \A c \in Components :
          Chained(p, c) =>
             /\ ~HasEdge(p, NameOf(c))
             /\ HasEdge(NameOf(LastFor(p, c)), NameOf(c))
             /\ EdgeWeight(NameOf(LastFor(p, c)), NameOf(c)) = Dependency

\* c depends on the node p and no interceptor of p is enabled for c
Unfiltered(p, c) == p \in Nodes /\ DependsOn(c, p) /\ EnabledFor(p, c) = {}

\* the statement of C5 as written: the direct edge stays and nothing is put between
C5_FilteredStaysDirect ==
    GraphBuilt =>
       \A p \in Nodes : \A c \in Components :
          Unfiltered(p, c) =>
             /\ HasEdge(p, NameOf(c))
             /\ \A r \in redirects : ~(r.provider = p /\ r.consumer = NameOf(c))

\* C5 (amended): when no interceptor of p is enabled for c, the edge p -> c is not
\* rerouted, and it stays in the graph unless c is itself an interceptor of p that the
\* chain of another consumer places after the first
C5_FilteredStaysDirectUnlessChained ==
    GraphBuilt =>
       \A p \in Nodes : \A c \in Components :
          Unfiltered(p, c) =>
             /\ \A r \in redirects : ~(r.provider = p /\ r.consumer = NameOf(c))
             /\ \/ HasEdge(p, NameOf(c))
                \/ \E r \in redirects :
                      /\ r.provider = p
                      /\ \E k \in 2..Len(r.chain) : r.chain[k] = NameOf(c)

\* an interceptor of p exists but its scope filters it out for the consumer c
C5_Witness ==
    /\ GraphBuilt
    /\ \E p \in Nodes : \E c \in Components :
          /\ Unfiltered(p, c)
          /\ \E i \in Components \ {c} : p \in Range(component_definitions[i].intercepts)
                                         /\ component_definitions[i].enables = "unexposed"
          /\ HasEdge(p, NameOf(c))
          /\ EdgeWeight(p, NameOf(c)) = Dependency

-----------------------------------------------------------------------------
(* Vocabulary of the registry properties *)

\* the components process_component has returned for
Processed == DOMAIN results

Definition(name) == DefOf(component_definitions, name)

\* the requests made while processing c: which providers, and whether resolved
RequestsOf(c) == Range(results[c].requests)

IsFeature(p) == p \in DOMAIN runtime_features

\* P is a registered feature, or a built component with an enabling record
Known(p) == IsFeature(p) \/ p \in DOMAIN enabling_components

EnablesOf(p) == IF IsFeature(p) THEN runtime_features[p].enables ELSE Definition(p).enables

\* the scopes that look at the consumer's exposure only
ExposureAdmits(scope, c) ==
    \/ scope = "any"
    \/ scope = "exposed" /\ Definition(c).exposed
    \/ scope = "unexposed" /\ ~Definition(c).exposed

\* the metadata scopes of a component provider: both sides carry the value, same value
MetadataAdmits(scope, c, p) ==
    /\ ~IsFeature(p)
    /\ \/ /\ scope = "package"
          /\ wasm[c].package # {} /\ wasm[c].package = wasm[p].package
       \/ /\ scope = "namespace"
          /\ wasm[c].namespace # {} /\ wasm[c].namespace = wasm[p].namespace

\* C6 (as stated): a provider is resolved for the component that requests it iff it is
\* known and its scope is any, or exposed with an exposed requester, or unexposed with
\* a requester that is not exposed; for component providers and for features alike
C6_ExposureScopesOnly ==
    \A c \in Processed : \A r \in RequestsOf(c) :
       r.resolved <=> (Known(r.provider) /\ ExposureAdmits(EnablesOf(r.provider), c))

\* C6 (amended): a provider is resolved for the component that requests it iff it is
\* known and its scope is any, exposed with an exposed requester, unexposed with a
\* requester that is not exposed, or, for a component provider only, package or
\* namespace with that metadata present on both sides and equal
C6_ScopeResolution ==
    \A c \in Processed : \A r \in RequestsOf(c) :
       r.resolved <=>
          /\ Known(r.provider)
          /\ \/ ExposureAdmits(EnablesOf(r.provider), c)
             \/ MetadataAdmits(EnablesOf(r.provider), c, r.provider)

\* one walk resolved a component under a metadata scope and refused a feature
C6_Witness ==
    \E c \in Processed :
       /\ \E r \in RequestsOf(c) :
             ~IsFeature(r.provider) /\ r.resolved /\ EnablesOf(r.provider) = "namespace"
       /\ \E r \in RequestsOf(c) :
             IsFeature(r.provider) /\ ~r.resolved /\ EnablesOf(r.provider) = "exposed"

\* C7 (as stated): a built component provider with scope package (namespace) is
\* resolved for a requester iff the two package (namespace) values are equal, absent
\* values included
C7_MetadataEquality ==
    \A c \in Processed : \A r \in RequestsOf(c) :
       (~IsFeature(r.provider) /\ Known(r.provider)) =>
          /\ EnablesOf(r.provider) = "package" =>
                (r.resolved <=> wasm[c].package = wasm[r.provider].package)
          /\ EnablesOf(r.provider) = "namespace" =>
                (r.resolved <=> wasm[c].namespace = wasm[r.provider].namespace)

\* C7 (amended): a built component provider with scope package (namespace) is resolved
\* for a requester iff both carry a package (namespace) value and the values are equal
C7_MetadataPresentAndEqual ==
    \A c \in Processed : \A r \in RequestsOf(c) :
       (~IsFeature(r.provider) /\ Known(r.provider)) =>
          /\ EnablesOf(r.provider) = "package" =>
                (r.resolved <=> /\ wasm[c].package # {}
                                /\ wasm[r.provider].package # {}
                                /\ wasm[c].package = wasm[r.provider].package)
          /\ EnablesOf(r.provider) = "namespace" =>
                (r.resolved <=> /\ wasm[c].namespace # {}
                                /\ wasm[r.provider].namespace # {}
                                /\ wasm[c].namespace = wasm[r.provider].namespace)

\* a package-scoped provider was requested by a component when neither has metadata
C7_Witness ==
    \E c \in Processed : \E r \in RequestsOf(c) :
       /\ r.provider \in DOMAIN enabling_components
       /\ EnablesOf(r.provider) = "package"
       /\ wasm[c].package = {} /\ wasm[r.provider].package = {}
       /\ ~r.resolved

\* the component providers of c in the final graph
ComponentProviders(c) == {d \in get_dependencies(graph, c) : ~IsFeature(d)}

\* D's enables scope admits C, and D has an enabling record
Admits(d, c) ==
    /\ d \in DOMAIN enabling_components
    /\ \/ ExposureAdmits(Definition(d).enables, c)
       \/ MetadataAdmits(Definition(d).enables, c, d)

\* the providers of c, features included, that are not enabled for c
Disabled(c) ==
    {d \in get_dependencies(graph, c) :
        IF IsFeature(d) THEN ~ExposureAdmits(EnablesOf(d), c) ELSE ~Admits(d, c)}

\* build_registries has returned Err(e)
Fails(e) == pc = "fatal" /\ error = e

\* C8 (as stated): once the walk has processed a component C with a component provider
\* D that does not admit it, build_registries has returned "Component C requested
\* dependency D, but access is not enabled", whether C is exposed or not
C8_DisabledDependencyFatal ==
    \A c \in Processed : \A d \in ComponentProviders(c) :
       ~Admits(d, c) => Fails(DependencyDisabled(c, d))

\* C8 (amended): once the walk has processed a component C with a component provider D
\* that does not admit it, process_component has returned an error for C; when C is
\* exposed C is skipped and that error is not returned; when C is not exposed
\* build_registries has returned that error, which is, when the bytes of C are
\* readable, the access error of a provider that is not enabled for C, hence
\* "Component C requested dependency D, but access is not enabled" when D is the only one
C8_DisabledDependencyFailsComponent ==
    \A c \in Processed : \A d \in ComponentProviders(c) :
       ~Admits(d, c) =>
          /\ results[c].error # NoError
          /\ c \notin DOMAIN built_components
          /\ Definition(c).exposed => ~(pc = "fatal" /\ error.component = c)
          /\ ~Definition(c).exposed =>
                /\ Fails(results[c].error)
                /\ wasm[c].readable =>
                      /\ error.kind \in {"dependency_disabled", "feature_disabled"}
                      /\ error.component = c
                      /\ error.dependency \in Disabled(c)
                /\ (wasm[c].readable /\ Disabled(c) = {d}) =>
                      error = DependencyDisabled(c, d)

\* a component that is not exposed asked for a provider that is built and has an
\* enabling record, but whose scope is exposed; the build failed with the access error
C8_Witness ==
    \E c \in Processed : \E d \in ComponentProviders(c) :
       /\ d \in DOMAIN enabling_components
       /\ Definition(d).enables = "exposed"
       /\ ~Definition(c).exposed
       /\ Fails(DependencyDisabled(c, d))

\* an exposed component D whose processing failed although its scope admits c
SkippedProvider(d, c) ==
    /\ ~IsFeature(d)
    /\ Definition(d).exposed
    /\ d \in Processed /\ results[d].error # NoError
    /\ \/ ExposureAdmits(Definition(d).enables, c)
       \/ MetadataAdmits(Definition(d).enables, c, d)

\* C9 (as stated): when process_component finds an import of C left unsatisfied, then
\* (a) if C is not exposed build_registries returns that error, and (b) if C is exposed
\* C is absent from the public map and build_registries does not fail for want of C
C9_UnsatisfiedImports ==
    \A c \in Processed :
       results[c].error.kind = "imports_unsatisfied" =>
          IF ~Definition(c).exposed
          THEN Fails(results[c].error)
          ELSE /\ c \notin DOMAIN exposed_components
               /\ ~(/\ pc = "fatal"
                    /\ error.kind = "dependency_disabled"
                    /\ error.dependency = c
                    /\ SkippedProvider(c, error.component))

\* C10 (as stated): build_registries never returns an error because an exposed
\* component is unresolvable: no build fails on a request for an exposed provider
\* whose scope admits the requester and which is missing only because it was skipped
C10_ExposedSkipNeverFatal ==
    pc = "fatal" =>
       ~(/\ error.kind = "dependency_disabled"
         /\ SkippedProvider(error.dependency, error.component))

-----------------------------------------------------------------------------
(* Vocabulary of the Runtime properties *)

ComponentNamesDefined == {component_definitions[i].name : i \in DOMAIN component_definitions}

\* the exposed components whose processing succeeded
ExposedAndBuilt ==
    {c \in ComponentNamesDefined :
        Definition(c).exposed /\ c \in Processed /\ results[c].error = NoError}

\* the call made nothing: no store, no instance, no extension state
NothingInstantiated(call) ==
    call.status = "failed" /\ call.extensions = NoSpecs /\ call.outcome = NoOption

\* C11: after build_registries returned Ok the public map holds exactly the exposed
\* components whose processing succeeded, list_components returns exactly these, and
\* get_component, invoke and instantiate with any other name find nothing and
\* instantiate nothing
C11_OnlyExposedArePublic ==
    pc = "done" =>
       /\ DOMAIN exposed_components = ExposedAndBuilt
       /\ list_components = ExposedAndBuilt
       /\ \A n \in CallNames : (get_component(n) # NoOption) <=> n \in ExposedAndBuilt
       /\ \A i \in DOMAIN invocations :
             invocations[i].component \notin ExposedAndBuilt =>
                /\ invocations[i].error = ComponentNotFound(invocations[i].component)
                /\ NothingInstantiated(invocations[i])

\* a built component that is not exposed was invoked and a skipped exposed one was
\* instantiated, on a Runtime that does publish a component
C11_Witness ==
    /\ pc = "done"
    /\ exposed_components # NoSpecs
    /\ \E i, j \in DOMAIN invocations :
          /\ invocations[i].op = "invoke"
          /\ invocations[i].component \in DOMAIN built_components
          /\ ~Definition(invocations[i].component).exposed
          /\ invocations[i].error.kind = "component_not_found"
          /\ invocations[j].op = "instantiate"
          /\ invocations[j].component \in ComponentNamesDefined
          /\ Definition(invocations[j].component).exposed
          /\ results[invocations[j].component].error # NoError
          /\ invocations[j].error.kind = "component_not_found"

-----------------------------------------------------------------------------
(* Accumulation of runtime features *)

\* the runtime features with an edge into c whose enables scope admits c
EnabledFeatureProviders(c) ==
    {p \in get_dependencies(graph, c) : IsFeature(p) /\ ExposureAdmits(EnablesOf(p), c)}

\* C12: every successfully built component C has all its component providers built,
\* and C.runtime_features is exactly the set of the runtime features with an edge
\* into C that are enabled for C, united with the runtime_features of every
\* component provider with an edge into C
C12_FeaturesAccumulateTransitively ==
    \A c \in DOMAIN built_components :
       /\ ComponentProviders(c) \subseteq DOMAIN built_components
       /\ built_components[c].runtime_features =
             EnabledFeatureProviders(c) \cup
             UNION {built_components[d].runtime_features : d \in ComponentProviders(c)}

\* an exposed handler built over a client that expects infra, whose scope
\* (unexposed) would not admit the handler itself, ends with exactly {infra}
C12_Witness ==
    /\ pc = "done"
    /\ "gamma" \in DOMAIN exposed_components
    /\ get_dependencies(graph, "gamma") = {"beta"}
    /\ get_dependencies(graph, "beta") = {"infra"}
    /\ runtime_features["infra"].enables = "unexposed"
    /\ ~ExposureAdmits(EnablesOf("infra"), "gamma")
    /\ exposed_components["gamma"].runtime_features = {"infra"}

-----------------------------------------------------------------------------
(* Import satisfaction *)

\* an unsigned integer as u32 reads it: an optional '+', digits, at most 2^32 - 1
IsUnsigned(text) ==
    \E sign \in {<<>>, <<"+">>}, n \in 1..Len(text) :
       /\ text = sign \o SubSeq(text, Len(text) - n + 1, Len(text))
       /\ \A i \in (Len(text) - n + 1)..Len(text) : text[i] \in Range(Digits)
       /\ u32_le(StripZeros(SubSeq(text, Len(text) - n + 1, Len(text))), u32_MAX)

\* its value, as a numeral without sign and leading zeros
ValueOf(text) == StripZeros(IF Head(text) = "+" THEN Tail(text) ELSE text)

\* the ways to read id as name@major.minor.patch with three unsigned integers
VersionedForms(id) ==
    {[name |-> SubSeq(id, 1, i - 1), major |-> ValueOf(SubSeq(id, i + 1, j - 1)),
      minor |-> ValueOf(SubSeq(id, j + 1, k - 1)), patch |-> ValueOf(SubSeq(id, k + 1, Len(id)))] :
        <<i, j, k>> \in {t \in (DOMAIN id) \X (DOMAIN id) \X (DOMAIN id) :
                           /\ t[1] < t[2] /\ t[2] < t[3]
                           /\ id[t[1]] = "@" /\ id[t[2]] = "." /\ id[t[3]] = "."
                           /\ IsUnsigned(SubSeq(id, t[1] + 1, t[2] - 1))
                           /\ IsUnsigned(SubSeq(id, t[2] + 1, t[3] - 1))
                           /\ IsUnsigned(SubSeq(id, t[3] + 1, Len(id)))}}

\* the rule: an element of the set, or answered by a same-name, same-major,
\* same-minor interface of the set with a patch at least as high
SatisfiedByRule(import, interfaces) ==
    \/ import \in interfaces
    \/ \E r \in VersionedForms(import), available \in interfaces :
          \E a \in VersionedForms(available) :
             /\ a.name = r.name /\ a.major = r.major /\ a.minor = r.minor
             /\ u32_le(r.patch, a.patch)

ProvidedNow == collect_runtime_interfaces(runtime_features, provided)

\* C13: is_import_satisfied(import, provided) is true iff import is an element of
\* provided, or import has the form name@major.minor.patch of three unsigned integers
\* and provided holds some name@x.y.z with the same name, x = major, y = minor and
\* z >= patch; a different major or minor, a lower patch or a version that is not
\* three integers matches by equality of the ids only
C13_ImportSatisfactionRule ==
    satisfied # NoOption =>
       /\ Unwrap(satisfied) <=> SatisfiedByRule(asked, ProvidedNow)
       /\ (VersionedForms(asked) = {} /\ asked \notin ProvidedNow) => ~Unwrap(satisfied)

\* an import answered by a provided interface of a higher patch, next to none equal
C13_Witness ==
    /\ satisfied = Some(TRUE)
    /\ asked \notin ProvidedNow
    /\ \E r \in VersionedForms(asked), available \in ProvidedNow :
          \E a \in VersionedForms(available) :
             a.name = r.name /\ a.patch # r.patch /\ u32_le(r.patch, a.patch)

\* the interfaces of every registered feature, the import itself and one more
InterfacePool ==
    collect_runtime_interfaces(runtime_features, DOMAIN runtime_features)
       \cup {asked, Interface(GreeterName, Version(1, 2, 5))}

\* C14: for every import i and sets S and T of provided interfaces with S a subset
\* of T, is_import_satisfied(i, S) implies is_import_satisfied(i, T); and adding a
\* runtime feature to the accumulated set never turns a satisfied import into an
\* unsatisfied one
C14_ImportSatisfactionMonotone ==
    /\ [](\A T \in SUBSET InterfacePool : \A S \in SUBSET T :
             is_import_satisfied(asked, S) => is_import_satisfied(asked, T))
    /\ [][(satisfied = Some(TRUE) /\ provided \subseteq provided')
             => satisfied' = Some(TRUE)]_vars

\* an import that infra alone satisfies through a higher patch stays satisfied with
\* extra added, whose interface does not answer for it
C14_Witness ==
    /\ satisfied = Some(TRUE)
    /\ {"infra", "extra"} \subseteq provided
    /\ asked \notin ProvidedNow
    /\ is_import_satisfied(asked, runtime_features["infra"].interfaces)
    /\ runtime_features["extra"].interfaces # {}
    /\ ~is_import_satisfied(asked, runtime_features["extra"].interfaces)

-----------------------------------------------------------------------------
(* Vocabulary of the loader properties *)

\* every definition the files hold, the implicit ones included
FileFeatures == definition_files.toml_features

FileComponents ==
    definition_files.toml_components \o
       create_implicit_component_definitions(definition_files.wasm_files)

FileNames ==
    {FileFeatures[i].name : i \in DOMAIN FileFeatures} \cup
    {FileComponents[i].name : i \in DOMAIN FileComponents}

ScopesValid ==
    /\ \A i \in DOMAIN FileFeatures :
          FileFeatures[i].enables \in {"none", "unexposed", "exposed", "any"}
    /\ \A i \in DOMAIN FileComponents : FileComponents[i].enables \in EnableScopes

\* two definitions share a name
NameShared ==
    \/ \E i, j \in DOMAIN FileFeatures : i # j /\ FileFeatures[i].name = FileFeatures[j].name
    \/ \E i, j \in DOMAIN FileComponents :
          i # j /\ FileComponents[i].name = FileComponents[j].name
    \/ \E i \in DOMAIN FileFeatures, j \in DOMAIN FileComponents :
          FileFeatures[i].name = FileComponents[j].name

\* the undefined names a definition expects
UndefinedExpectations(def) == {def.expects[k] : k \in DOMAIN def.expects} \ FileNames

Loaded == pc # "files"

LoaderAccepted == pc \in {"definitions", "graph"} \/ (pc = "rejected" /\ error.kind = "cycle")

LoaderFailed(kind) == pc = "rejected" /\ error.kind = kind

\* C15: given valid scopes and unique names, the loader fails, with 'expects
\* undefined definition', iff some component that is not exposed expects a name no
\* definition has; an exposed component with an undefined expectation is accepted
\* by the loader and by the graph builder, which creates no edge for that name
C15_UndefinedExpectations ==
    (Loaded /\ ScopesValid /\ ~NameShared) =>
       /\ LoaderFailed("expects_undefined") <=>
             \E i \in DOMAIN FileComponents :
                ~FileComponents[i].exposed /\ UndefinedExpectations(FileComponents[i]) # {}
       /\ ~LoaderFailed("expects_undefined") => LoaderAccepted
       /\ pc = "graph" =>
             /\ component_definitions = FileComponents
             /\ \A e \in graph : e.source \in FileNames /\ e.target \in FileNames

\* an exposed component that expects infra and a name defined nowhere is in the
\* built graph, with its edge from infra and none for the other name
C15_Witness ==
    /\ pc = "graph"
    /\ \E i \in DOMAIN component_definitions :
          LET def == component_definitions[i]
          IN /\ def.exposed
             /\ def.expects = <<"infra", "ghost">>
             /\ "ghost" \notin FileNames
             /\ get_dependencies(graph, def.name) = {"infra"}

\* ComponentGraph::build: one node per definition, features first, in this order
add_nodes(cdefs, rdefs) == definition_names(rdefs, cdefs)

\* ComponentGraph::build: node_map, where a later insert of a name replaces the earlier
node_map(cdefs, rdefs) ==
    LET nodes == add_nodes(cdefs, rdefs)
    IN [n \in Range(nodes) |-> CHOOSE i \in DOMAIN nodes :
                                  nodes[i] = n /\ \A j \in DOMAIN nodes : nodes[j] = n => j <= i]

\* the graph built from the loaded definitions has pairwise distinct node names and
\* a name-to-node map that is a bijection onto the nodes
NodeNamesUnique ==
    pc = "graph" =>
       LET nodes == add_nodes(component_definitions, runtime_feature_definitions)
           map == node_map(component_definitions, runtime_feature_definitions)
       IN /\ Distinct(nodes)
          /\ \A i \in DOMAIN nodes : map[nodes[i]] = i

\* C16 (as stated): the loader returns 'Duplicate definition name' whenever two
\* definitions share a name, counted across the runtime features and components of
\* all manifests and all standalone paths; consequently the node names of every
\* graph built from loaded definitions are pairwise distinct and the name-to-node
\* map is a bijection onto the nodes
C16_DuplicateNameReported ==
    /\ (Loaded /\ NameShared) => LoaderFailed("duplicate_name")
    /\ NodeNamesUnique

\* C16 (amended): whenever two definitions share a name the loader fails; it returns
\* 'Duplicate definition name', for the first repeated name, when every enables
\* scope is valid, and the error of the scope validation, which runs first,
\* otherwise; consequently the node names of every graph built from loaded
\* definitions are pairwise distinct and the name-to-node map is a bijection
C16_DuplicateNameFails ==
    /\ (Loaded /\ NameShared) =>
          /\ pc = "rejected"
          /\ ScopesValid =>
                /\ LoaderFailed("duplicate_name")
                /\ \E i, j \in DOMAIN definition_names(FileFeatures, FileComponents) :
                      /\ i # j
                      /\ definition_names(FileFeatures, FileComponents)[i] = error.name
                      /\ definition_names(FileFeatures, FileComponents)[j] = error.name
          /\ ~ScopesValid => error.kind \in {"invalid_scope", "feature_scope_unsupported"}
    /\ NodeNamesUnique

\* a manifest component and a standalone path share a name, nothing else is wrong,
\* and the loader has returned 'Duplicate definition name' for it
C16_Witness ==
    /\ ScopesValid
    /\ LoaderFailed("duplicate_name")
    /\ \E i \in DOMAIN definition_files.toml_components,
          k \in DOMAIN definition_files.wasm_files :
          /\ definition_files.toml_components[i].name =
                implicit_name(definition_files.wasm_files[k])
          /\ error.name = definition_files.toml_components[i].name
    /\ Distinct(definition_names(FileFeatures, definition_files.toml_components))

-----------------------------------------------------------------------------
(* Host extensions *)

\* build_registries has been called and has got past the feature registry, or failed
RegistriesBegun == pc \in {"walk", "done", "fatal"}

\* the host features without a registered factory, as indices of the definitions
Unregistered ==
    {i \in DOMAIN runtime_feature_definitions :
        /\ strip_prefix_host(runtime_feature_definitions[i].uri) # NoOption
        /\ strip_prefix_host(runtime_feature_definitions[i].uri) \cap factories = {}}

NotRegistered(i) ==
    ExtensionMissing(Unwrap(strip_prefix_host(runtime_feature_definitions[i].uri)),
                     runtime_feature_definitions[i].uri)

NothingProcessed == Processed = {} /\ built_components = NoSpecs /\ cursor = 0

\* C17 (as stated): if any runtime feature has a uri host:<name> and no factory is
\* registered under <name>, build_registries fails with "Host extension '<name>'
\* (URI: 'host:<name>') not registered", before any component is processed, whether
\* or not a component depends on the feature and whether or not it is exposed
C17_MissingExtensionNamed ==
    \A i \in Unregistered : RegistriesBegun => Fails(NotRegistered(i)) /\ NothingProcessed

\* C17 (amended): if some host feature has no registered factory, build_registries
\* fails before any component is processed, whoever depends on the feature; the
\* error is the 'not registered' message of the first such feature in definition
\* order, unless the creation of an earlier host feature failed, whose error it is
C17_MissingExtensionFatal ==
    (Unregistered # {} /\ RegistriesBegun) =>
       /\ pc = "fatal"
       /\ NothingProcessed
       /\ \/ error = NotRegistered(Least(Unregistered))
          \/ /\ error.kind = "create_failed"
             /\ \E j \in 1..(Least(Unregistered) - 1) :
                   /\ runtime_feature_definitions[j].name = error.name
                   /\ runtime_feature_definitions[j].config # EmptyConfig
       /\ (\A j \in 1..(Least(Unregistered) - 1) :
              runtime_feature_definitions[j].config = EmptyConfig)
             => error = NotRegistered(Least(Unregistered))

\* counter has no factory, greeter has one, no component expects counter, and the
\* build has failed for counter with nothing processed
C17_Witness ==
    /\ Fails(ExtensionMissing("counter", "host:counter"))
    /\ factories = {"greeter"}
    /\ NothingProcessed
    /\ \A i \in DOMAIN component_definitions :
          "counter" \notin Range(component_definitions[i].expects)
    /\ \E i \in DOMAIN component_definitions : component_definitions[i].exposed

-----------------------------------------------------------------------------
(* Extension state *)

\* the call found its component and function, so an instance was asked for
InstanceAsked(call) ==
    call.error.kind \notin {"component_not_found", "function_not_found"}

\* the features of the component's runtime_features that produce state of this type
Producers(component, type_id) ==
    {f \in exposed_components[component].runtime_features \cap DOMAIN runtime_features :
        /\ runtime_features[f].extension # NoOption
        /\ Unwrap(runtime_features[f].extension).state # NoOption
        /\ Unwrap(Unwrap(runtime_features[f].extension).state).type_id = type_id}

StateTypes == {"CounterState", "SharedState"}

\* C18: instantiating a component fails with 'Duplicate extension state type' iff two
\* host features among the component's runtime_features return per-instance state
\* of the same type key; the failure comes at instantiation, on a component that
\* was built and published, and creates no instance; otherwise the state bag holds
\* exactly one state per type key produced
C18_DuplicateExtensionState ==
    \A i \in DOMAIN invocations :
       LET call == invocations[i]
       IN InstanceAsked(call) =>
             /\ pc = "done" /\ call.component \in DOMAIN exposed_components
             /\ call.error.kind = "duplicate_extension_state" <=>
                   \E t \in StateTypes : Cardinality(Producers(call.component, t)) >= 2
             /\ call.error.kind = "duplicate_extension_state" =>
                   /\ NothingInstantiated(call)
                   /\ \E t \in StateTypes :
                         /\ Cardinality(Producers(call.component, t)) >= 2
                         /\ call.error.feature \in Producers(call.component, t)
             /\ call.error.kind # "duplicate_extension_state" =>
                   DOMAIN call.extensions =
                      {t \in StateTypes : Producers(call.component, t) # {}}

\* beta was built over alpha, which brings first, and expects second itself; the
\* build succeeded and the invoke of beta failed on the shared state type
C18_Witness ==
    /\ pc = "done"
    /\ "beta" \in DOMAIN exposed_components
    /\ get_dependencies(graph, "beta") = {"alpha", "second"}
    /\ exposed_components["beta"].runtime_features = {"first", "second"}
    /\ \E i \in DOMAIN invocations :
          /\ invocations[i].op = "invoke"
          /\ invocations[i].component = "beta"
          /\ invocations[i].error.kind = "duplicate_extension_state"
          /\ NothingInstantiated(invocations[i])

\* the function a call runs
FunctionOf(call) == exposed_components[call.component].functions[call.function]

\* the calls of increment this invocation has made so far
CallsMade(call) == FunctionOf(call).calls - call.calls

\* what create_state_boxed of the producing feature yields: the fresh state
FreshState(component, type_id) ==
    Unwrap(Unwrap(runtime_features[CHOOSE f \in Producers(component, type_id) : TRUE]
                     .extension).state).value

\* C19: however the invocations on one Runtime are interleaved at their suspension
\* points, each one has its own state bag, created fresh: its counter holds the
\* fresh value plus the increments this invocation itself has made, states it does
\* not touch keep their fresh value, an instance nobody calls keeps all of them, and
\* a guest that increments a counter starting at 0 n times returns n every time
C19_StateIsolatedPerInvocation ==
    \A i \in DOMAIN invocations :
       LET call == invocations[i]
       IN /\ call.status \in {"running", "returned"} =>
                /\ \A t \in DOMAIN call.extensions \ {"CounterState"} :
                      call.extensions[t] = FreshState(call.component, t)
                /\ "CounterState" \in DOMAIN call.extensions =>
                      call.extensions["CounterState"] =
                         FreshState(call.component, "CounterState") + CallsMade(call)
                /\ (call.status = "returned" /\ FunctionOf(call).counted) =>
                      call.outcome = Some(JsonNumber(FunctionOf(call).calls))
          /\ call.status = "instance" =>
                \A t \in DOMAIN call.extensions :
                   call.extensions[t] = FreshState(call.component, t)
          /\ call.error.kind # "call_failed"

\* two invocations of the same counting guest: the second ran to its end and
\* returned 2 while the first was suspended after its first increment
C19_Witness ==
    /\ Len(invocations) = 2
    /\ invocations[1].component = invocations[2].component
    /\ invocations[1].status = "running"
    /\ invocations[2].status = "returned"
    /\ "CounterState" \in DOMAIN invocations[1].extensions
    /\ "CounterState" \in DOMAIN invocations[2].extensions
    /\ invocations[1].extensions["CounterState"] = 1
    /\ invocations[1].calls = 1
    /\ invocations[2].extensions["CounterState"] = 2
    /\ invocations[2].outcome = Some(JsonNumber(2))

-----------------------------------------------------------------------------
(* Return shape of invoke *)

\* call_async has returned for this invocation and invoke has shaped its answer
Answered(call) ==
    \/ call.status = "returned"
    \/ call.status = "failed" /\
          call.error.kind \in {"component_returned_error", "record_mismatch"}

\* the results the guest function left
ResultsOf(call) ==
    IF FunctionOf(call).counted THEN <<U32(call.last)>> ELSE FunctionOf(call).vals

IsErrorArm(v) == v.val = "Result" /\ v.arm = "error"

PayloadJson(v) == IF v.payload = NoOption THEN JsonNull ELSE val_to_json(Unwrap(v.payload))

\* C20: a function with zero results yields JSON null; with exactly one result that
\* is a result-variant with the error arm set, invoke returns the error 'Component
\* returned error', carrying the payload rendered as JSON when there is one, and
\* otherwise val_to_json of the single value, an ok arm as {"ok": value-or-null};
\* an error arm is surfaced as an invocation error only when it is the single
\* top-level result
C20_ReturnShape ==
    \A i \in DOMAIN invocations :
       LET call == invocations[i]
       IN Answered(call) =>
             LET vals == ResultsOf(call)
             IN /\ Len(vals) = 0 =>
                      call.status = "returned" /\ call.outcome = Some(JsonNull)
                /\ (Len(vals) = 1 /\ IsErrorArm(vals[1])) =>
                      /\ call.status = "failed"
                      /\ call.outcome = NoOption
                      /\ call.error =
                            ComponentReturnedError(IF vals[1].payload = NoOption
                                                   THEN NoOption
                                                   ELSE Some(PayloadJson(vals[1])))
                /\ (Len(vals) = 1 /\ ~IsErrorArm(vals[1])) =>
                      /\ call.status = "returned"
                      /\ call.outcome = Some(val_to_json(vals[1]))
                      /\ vals[1].val = "Result" =>
                            call.outcome = Some(JsonObject("ok" :> PayloadJson(vals[1])))
                /\ call.error.kind = "component_returned_error" =>
                      Len(vals) = 1 /\ IsErrorArm(vals[1])

\* the guest's single result was err("boom") and invoke failed with that payload
C20_Witness ==
    \E i \in DOMAIN invocations :
       /\ invocations[i].status = "failed"
       /\ invocations[i].error = ComponentReturnedError(Some(JsonString("boom")))
       /\ ResultsOf(invocations[i]) = <<ResultErr(Some(String("boom")))>>
       /\ invocations[i].outcome = NoOption

-----------------------------------------------------------------------------
(* Vocabulary of the marshaller properties *)

Marshalling == pc = "marshal" /\ json_value # NoOption
Converted == Marshalling /\ inbound # NoOption
GivenJson == Unwrap(json_value)
GivenType == Unwrap(val_type)

\* the range of an integer type. Every integer here is above -2^63 and below 2^31, so the
\* 32- and 64-bit types bound it only from below
InRange(n, type) ==
    /\ Signed(type) \/ n >= 0
    /\ Bits(type) >= 32
       \/ IF Signed(type)
          THEN n >= 0 - 2 ^ (Bits(type) - 1) /\ n < 2 ^ (Bits(type) - 1)
          ELSE n < 2 ^ Bits(type)

NumberToInteger ==
    /\ Converted
    /\ GivenJson.json \in {"number", "float"}
    /\ GivenType.type \in IntTypes

-----------------------------------------------------------------------------
(* Numeric marshalling *)

\* C21: json_to_val of a JSON number to an integer type succeeds only when the number is an
\* integer within the range of the type, yielding exactly that value, and returns an error
\* for every number outside the range: it never wraps or truncates.
C21_RangeChecked ==
    NumberToInteger =>
        LET result == Unwrap(inbound)
        IN /\ result.ok =>
                 /\ GivenJson.json = "number"
                 /\ InRange(GivenJson.n, GivenType.type)
                 /\ result.val = IntVal(GivenType.type, GivenJson.n)
           /\ (GivenJson.json = "number" /\ ~InRange(GivenJson.n, GivenType.type))
                 => ~result.ok

-----------------------------------------------------------------------------
(* Round trip of the marshaller *)

FieldNames(type) == {type.fields[i].name : i \in DOMAIN type.fields}
FieldType(type, name) == type.fields[CHOOSE i \in DOMAIN type.fields : type.fields[i].name = name].ty
CaseNames(type) == {type.cases[i].name : i \in DOMAIN type.cases}
CaseType(type, name) == type.cases[CHOOSE i \in DOMAIN type.cases : type.cases[i].name = name].ty

\* a JSON value matches a type: section 4.7's table, and for the types the table leaves
\* out the shape val_to_json gives them
RECURSIVE Matches(_, _)
Matches(j, type) ==
    CASE type.type = "Bool" -> j.json = "bool"
      [] type.type = "String" -> j.json = "string"
      [] type.type = "Char" -> j.json = "string" /\ Len(j.s) = 1
      [] type.type \in IntTypes -> j.json = "number" /\ InRange(j.n, type.type)
      [] type.type = "List" ->
            j.json = "array" /\ \A i \in DOMAIN j.items : Matches(j.items[i], type.ty)
      [] type.type = "Tuple" ->
            /\ j.json = "array"
            /\ Len(j.items) = Len(type.types)
            /\ \A i \in DOMAIN j.items : Matches(j.items[i], type.types[i])
      [] type.type = "Record" ->
            /\ j.json = "object"
            /\ DOMAIN j.fields \subseteq FieldNames(type)
            /\ \A name \in FieldNames(type) :
                  IF name \in DOMAIN j.fields
                  THEN Matches(j.fields[name], FieldType(type, name))
                  ELSE FieldType(type, name).type = "Option"
      [] type.type = "Option" -> j.json = "null" \/ Matches(j, type.ty)
      [] type.type = "Enum" ->
            j.json = "string" /\ \E i \in DOMAIN type.names : j.s = <<type.names[i]>>
      [] type.type = "Flags" ->
            /\ j.json = "array"
            /\ \A i \in DOMAIN j.items :
                  /\ j.items[i].json = "string"
                  /\ \E k \in DOMAIN type.names : j.items[i].s = <<type.names[k]>>
      [] type.type = "Variant" ->
            /\ j.json = "object"
            /\ "type" \in DOMAIN j.fields
            /\ j.fields["type"].json = "string"
            /\ \E name \in CaseNames(type) :
                  /\ j.fields["type"].s = <<name>>
                  /\ IF CaseType(type, name) = NoOption
                     THEN DOMAIN j.fields = {"type"}
                     ELSE /\ DOMAIN j.fields = {"type", "value"}
                          /\ Matches(j.fields["value"], Unwrap(CaseType(type, name)))
      [] type.type = "Result" ->
            /\ j.json = "object"
            /\ \/ /\ DOMAIN j.fields = {"ok"}
                  /\ IF type.ok = NoOption THEN j.fields["ok"].json = "null"
                     ELSE Matches(j.fields["ok"], Unwrap(type.ok))
               \/ /\ DOMAIN j.fields = {"error"}
                  /\ IF type.err = NoOption THEN j.fields["error"].json = "null"
                     ELSE Matches(j.fields["error"], Unwrap(type.err))

\* the JSON value with null written for every absent option field of a record
RECURSIVE canonicalize(_, _)
canonicalize(j, type) ==
    CASE type.type = "List" /\ j.json = "array" ->
            JsonArray([i \in DOMAIN j.items |-> canonicalize(j.items[i], type.ty)])
      [] type.type = "Tuple" /\ j.json = "array" /\ Len(j.items) = Len(type.types) ->
            JsonArray([i \in DOMAIN j.items |-> canonicalize(j.items[i], type.types[i])])
      [] type.type = "Record" /\ j.json = "object" ->
            JsonObject([name \in DOMAIN j.fields \cup FieldNames(type) |->
                           IF name \in DOMAIN j.fields
                           THEN IF name \in FieldNames(type)
                                THEN canonicalize(j.fields[name], FieldType(type, name))
                                ELSE j.fields[name]
                           ELSE JsonNull])
      [] type.type = "Option" /\ j.json # "null" -> canonicalize(j, type.ty)
      [] OTHER -> j

\* the types json_to_val has an arm for
RECURSIVE Inbound(_)
Inbound(type) ==
    CASE type.type \in IntTypes \cup {"Bool", "String", "Char"} -> TRUE
      [] type.type \in {"List", "Option"} -> Inbound(type.ty)
      [] type.type = "Tuple" -> \A i \in DOMAIN type.types : Inbound(type.types[i])
      [] type.type = "Record" -> \A i \in DOMAIN type.fields : Inbound(type.fields[i].ty)
      [] OTHER -> FALSE

RoundTripHolds ==
    /\ Unwrap(inbound).ok
    /\ outbound # NoOption => Unwrap(outbound) = canonicalize(GivenJson, GivenType)

\* C22 as stated: for every type without resource/future/stream leaves (enum, flags,
\* variant and result included) and every JSON value matching it, json_to_val succeeds and
\* val_to_json of its value is the canonicalized JSON value.
C22_RoundTripEveryType ==
    (Converted /\ Matches(GivenJson, GivenType)) => RoundTripHolds

\* C22, amended: the round trip holds for the types built from bool, the integer types,
\* string, char, list, tuple, record and option; a JSON value matching an enum, flags,
\* variant or result type is refused by json_to_val with a type mismatch; and whenever
\* json_to_val accepts a matching value, val_to_json gives back its canonical form.
C22_RoundTripInboundTypes ==
    (Converted /\ Matches(GivenJson, GivenType)) =>
        /\ Inbound(GivenType) => RoundTripHolds
        /\ GivenType.type \in {"Enum", "Flags", "Variant", "Result"}
              => Unwrap(inbound) = Err(TypeMismatch)
        /\ (Unwrap(inbound).ok /\ outbound # NoOption)
              => Unwrap(outbound) = canonicalize(GivenJson, GivenType)

\* a record without its optional field went in and came back with null in its place
C22_Witness ==
    /\ Converted
    /\ outbound # NoOption
    /\ GivenType = Tagged
    /\ GivenJson = Obj1("id", JsonNumber(1))
    /\ Unwrap(outbound) = Obj2("id", JsonNumber(1), "tag", JsonNull)

-----------------------------------------------------------------------------
(* Outbound shape of a variant *)

VariantRendered == pc = "marshal" /\ val # NoOption /\ outbound # NoOption /\ Unwrap(val).val = "Variant"

\* C23: val_to_json of a variant named N is a JSON object whose "type" is the string N;
\* a payload that converts to an object has its fields merged next to "type", any other
\* payload is stored under "value", and without a payload the object has only "type";
\* for every payload, a record with a field named "type" or "value" included.
C23_VariantShape ==
    VariantRendered =>
        LET variant == Unwrap(val)
            json == Unwrap(outbound)
        IN /\ json.json = "object"
           /\ "type" \in DOMAIN json.fields
           /\ json.fields["type"] = JsonString(<<variant.name>>)
           /\ IF variant.payload = NoOption
              THEN DOMAIN json.fields = {"type"}
              ELSE LET payload == val_to_json(Unwrap(variant.payload))
                   IN IF payload.json = "object"
                      THEN /\ DOMAIN json.fields = {"type"} \cup DOMAIN payload.fields
                           /\ \A k \in DOMAIN payload.fields \ {"type"} :
                                 json.fields[k] = payload.fields[k]
                      ELSE /\ DOMAIN json.fields = {"type", "value"}
                           /\ json.fields["value"] = payload

-----------------------------------------------------------------------------
(* String coercion of the invoke command *)

InvokeHanded == pc = "cli" /\ final_args # NoOption /\ Unwrap(final_args).error = NoError
HandedArgs == Unwrap(Unwrap(final_args).args)
StringTyped(i) == i \in DOMAIN cli_args /\ cli_params[i].json_schema.type = Some("string")
ParsedArg(i) == from_str(trim(cli_args[i]))

\* C24 as stated: for every argument whose parameter schema has type string, a text that
\* parses as a non-string JSON value (number, boolean, null, array or object) is passed
\* as the JSON string of its stringified form: a string parameter never receives a
\* non-string JSON value.
C24_StringParamGetsString ==
    InvokeHanded =>
        \A i \in DOMAIN cli_args :
            StringTyped(i) =>
                /\ HandedArgs[i].json = "string"
                /\ (ParsedArg(i) # NoOption /\ Unwrap(ParsedArg(i)).json # "string")
                      => HandedArgs[i] = JsonString(to_string(Unwrap(ParsedArg(i))))

\* C24, amended: a text that parses as a number, an array or an object is passed as the
\* JSON string of its compact text; a text that parses as a string, or does not parse, is
\* passed as a string; true, false and null are passed unchanged, so a string parameter
\* receives a non-string value exactly for these three.
C24_StringCoercion ==
    InvokeHanded =>
        \A i \in DOMAIN cli_args :
            StringTyped(i) =>
                LET parsed == ParsedArg(i)
                IN CASE parsed = NoOption -> HandedArgs[i] = JsonString(trim(cli_args[i]))
                     [] parsed # NoOption /\ Unwrap(parsed).json \in {"bool", "null", "string"} ->
                           HandedArgs[i] = Unwrap(parsed)
                     [] OTHER -> HandedArgs[i] = JsonString(to_string(Unwrap(parsed)))

\* the array typed as [1, 2] reached a string parameter as the string "[1,2]"
C24_Witness ==
    /\ InvokeHanded
    /\ \E i \in DOMAIN cli_args :
          /\ StringTyped(i)
          /\ cli_args[i] = <<"[", "1", ",", Space, "2", "]">>
          /\ HandedArgs[i] = JsonString(<<"[", "1", ",", "2", "]">>)

-----------------------------------------------------------------------------
(* Order of the registry walk *)

\* build_registries has entered its loop over the build order
Walking == pc \in {"walk", "done"} \/ (pc = "fatal" /\ cursor > 0)
WalkPosition(name) == CHOOSE i \in DOMAIN build_order : build_order[i] = name
ComponentEdges == {e \in graph : {e.source, e.target} \subseteq ComponentNamesDefined}

\* the provider's processing succeeded and left an enabling record
LeftEnablingRecord(name) ==
    /\ results[name].error = NoError
    /\ DefOf(component_definitions, name).enables # "none"

\* C25: during build_registries each component node is processed exactly once (at most
\* once at any moment, every one of them when the walk has run to its end), and for every
\* edge D -> C of the final graph between components D is processed, built or skipped,
\* before C, so the scratch registry handed to C's processing already holds the final
\* enabling record of every provider of C that built with enables other than none.
C25_TopologicalProcessing ==
    Walking =>
        /\ Len(build_order) = Cardinality(ComponentNamesDefined)
        /\ Range(build_order) = ComponentNamesDefined
        /\ Processed = {build_order[i] : i \in 1..(cursor - 1)}
        /\ pc = "done" => Processed = ComponentNamesDefined
        /\ \A e \in ComponentEdges :
              e.target \in Processed =>
                 /\ e.source \in Processed
                 /\ WalkPosition(e.source) < WalkPosition(e.target)
                 /\ LeftEnablingRecord(e.source) =>
                       LET seen == results[e.target].registry.enabling_components
                       IN /\ e.source \in DOMAIN seen
                          /\ e.source \in DOMAIN enabling_components
                          /\ seen[e.source] = enabling_components[e.source]

\* a walk that ended with a consumer processed after a provider that left a record
C25_Witness ==
    /\ pc = "done"
    /\ \E e \in ComponentEdges :
          /\ LeftEnablingRecord(e.source)
          /\ results[e.target].error = NoError
          /\ e.source \in DOMAIN results[e.target].registry.enabling_components

-----------------------------------------------------------------------------
(* Interceptors and what they intercept *)

\* the components whose intercepts list names x
InterceptorsOf(x) == {NameOf(i) : i \in {k \in Components : x \in Range(component_definitions[k].intercepts)}}

\* a path from x to c whose edges, the one leaving x apart, end at interceptors of x
ChainPath(x, c) ==
    \E e \in graph :
       /\ e.source = x
       /\ \/ e.target = c
          \/ <<e.target, c>> \in Paths(Nodes, {f \in graph : f.target \in InterceptorsOf(x)})

\* C26: for every component C whose intercepts contains a defined name X, every built
\* graph contains a directed path from X to C, and every edge on that path other than the
\* edge leaving X ends at a component that intercepts X.
C26_InterceptorsStayConnected ==
    GraphBuilt =>
        \A c \in Components :
            \A x \in Range(component_definitions[c].intercepts) \cap Nodes :
                ChainPath(x, NameOf(c))

\* an interceptor that lost its edge from x and receives x through another interceptor
C26_Witness ==
    /\ GraphBuilt
    /\ \E c \in Components :
          \E x \in Range(component_definitions[c].intercepts) \cap Nodes :
             /\ ~HasEdge(x, NameOf(c))
             /\ \E i \in InterceptorsOf(x) \ {NameOf(c)} :
                   HasEdge(x, i) /\ HasEdge(i, NameOf(c))

-----------------------------------------------------------------------------
(* Later interceptors and the provider *)

\* c's edge from p is rerouted through at least two interceptors
ChainedThroughSeveral(p, c) == Chained(p, c) /\ Cardinality(EnabledFor(p, c)) >= 2

\* C27: for every provider P and consumer C whose sorted list of enabled interceptors of P
\* is I0 .. I(n-1) with n >= 2, the built graph has no direct edge P -> Ik for any k >= 1,
\* for any number of consumers of P, also when different consumers see different subsets
\* of the interceptors.
C27_LaterInterceptorsLoseDirectEdge ==
    GraphBuilt =>
        \A p \in Nodes : \A c \in Components :
            ChainedThroughSeveral(p, c) =>
                \A i \in EnabledFor(p, c) :
                    Rank(EnabledFor(p, c), i) >= 1 => ~HasEdge(p, NameOf(i))

-----------------------------------------------------------------------------
(* Redirection and cycles *)

\* the declared dependency relation: c depends on every defined name in its expects or
\* intercepts
DeclaredRelation ==
    {Edge(p, NameOf(c), Dependency) : <<p, c>> \in {x \in Nodes \X Components : DependsOn(x[2], x[1])}}

DeclaredAcyclic == HasTopologicalOrder(Nodes, DeclaredRelation)

\* ComponentGraph::build has returned, Ok or Err
BuildReturned == pc # "definitions"

\* C28: if the declared dependency relation is acyclic, ComponentGraph::build succeeds:
\* the batch of interceptor edge removals and additions never turns an acyclic declared
\* graph into one rejected with 'Circular dependency detected', for every combination of
\* enables scopes, exposed flags and precedences of the interceptors.
C28_RedirectionAddsNoCycle ==
    (BuildReturned /\ DeclaredAcyclic) => pc # "rejected"

-----------------------------------------------------------------------------
(* Chain edges before the registry *)

\* the edges pushed to edges_to_add by redirection, as provider and consumer
RedirectionEdges ==
    LET adds == AllAdditions(component_definitions,
                             DeclaredEdges(component_definitions, runtime_feature_definitions), 1)
    IN {<<adds[k].source, adds[k].target>> : k \in DOMAIN adds}

\* y asked the registry for the built component x along an edge that redirection added
AskedAlongChainEdge(x, y, k) ==
    /\ results[y].requests[k].provider = x
    /\ <<x, y>> \in RedirectionEdges
    /\ x \in ComponentNamesDefined
    /\ x \in Processed
    /\ results[x].error = NoError

\* C29: for the enables scopes none, any, exposed and unexposed, every edge X -> Y between
\* components that redirection adds to a built graph passes the registry check for Y
\* requesting X, so build_registries never fails with 'access is not enabled' on an edge
\* created by redirection.
C29_ChainEdgesPassRegistry ==
    Walking =>
        \A y \in Processed : \A k \in DOMAIN results[y].requests :
            \A x \in ComponentNamesDefined :
                AskedAlongChainEdge(x, y, k) => results[y].requests[k].resolved

-----------------------------------------------------------------------------
(* What the registries publish *)

\* the specs of the public component map and of the enabling-component map
PublishedSpecs ==
    Range(exposed_components)
       \cup {enabling_components[n].component : n \in DOMAIN enabling_components}

\* the union of the interfaces of the registered runtime features among `names`
InterfacesOfFeatures(names) ==
    UNION {runtime_features[f].interfaces : f \in names \cap DOMAIN runtime_features}

StartsWithConfigStore(import) == Len(import) > 0 /\ import[1] = "wasi:config/store"

\* build_registries has returned Ok
RegistriesBuilt == pc = "done"

\* C30: after build_registries returns Ok, for every ComponentSpec in the public component
\* map and in the enabling-component map, every name in its runtime_features is a
\* registered runtime feature, and every entry of its remaining imports list is satisfied
\* by the union of the interfaces of those runtime features; no spec with a
\* wasi:config/store import or an unsatisfied import is ever published, at any moment of
\* the walk.
C30_PublishedSpecsSatisfied ==
    /\ RegistriesBuilt =>
          \A spec \in PublishedSpecs :
             /\ spec.runtime_features \subseteq DOMAIN runtime_features
             /\ \A import \in spec.imports :
                   SatisfiedByRule(import, InterfacesOfFeatures(spec.runtime_features))
    /\ \A spec \in PublishedSpecs :
          \A import \in spec.imports :
             /\ ~StartsWithConfigStore(import)
             /\ SatisfiedByRule(import, InterfacesOfFeatures(spec.runtime_features))

\* build_registries returned Ok and published, in both maps, a spec whose bytes imported
\* the config store and the poll interface: the config store import is gone and the
\* poll import is answered by the runtime feature
C30_Witness ==
    /\ RegistriesBuilt
    /\ \E n \in DOMAIN exposed_components \cap DOMAIN enabling_components :
          /\ ConfigStore \in wasm[n].imports
          /\ exposed_components[n].imports = {Poll}
          /\ exposed_components[n].runtime_features = {"infra"}
          /\ enabling_components[n].component = exposed_components[n]

====
